---- MODULE Spec2Model ----
(***************************************************************************)
(* WokiBrain booking engine: seat discovery (gap discovery, combo          *)
(* intersection, candidate building, selection) and the create-booking     *)
(* use case with its in-memory lock manager, idempotency store and         *)
(* booking repository.                                                     *)
(*                                                                         *)
(* Instants are milliseconds counted from 00:00 of day 0; the process      *)
(* timezone is UTC, so the calendar date of an instant is t \div DayMs and *)
(* "HH:mm" strings are minutes of the day.  Wall-clock time is kept as the *)
(* age of every lock and idempotency entry (now - acquiredAt).             *)
(***************************************************************************)
EXTENDS Integers, Sequences, FiniteSets, TLC

\* null / undefined of an object or array; NoTime: an absent "HH:mm" string.
Nil == <<>>
NoTime == -1

MsPerMinute == 60000
MsPerHour == 3600000
DayMs == 86400000
GridMinutes == 15

Min2(a, b) == IF a < b THEN a ELSE b
Max2(a, b) == IF a > b THEN a ELSE b

Range(s) == {s[i] : i \in 1..Len(s)}

\* The language's own operations (Array.prototype.filter and sort, a local
\* constant, reduce, push in a loop).
Filter(s, P(_)) == SelectSeq(s, P)

\* A local constant: v is evaluated once and F sees its value.
Bind(v, F(_)) == CHOOSE y \in {F(x) : x \in {v}} : TRUE

\* x put into the sorted s before the first element it precedes (stable).
InsertSorted(x, s, Cmp(_, _)) ==
  Bind(s, LAMBDA v :
    LET p == CHOOSE j \in 1..(Len(v) + 1) :
               /\ j = Len(v) + 1 \/ Cmp(x, v[j]) < 0
               /\ \A k \in 1..(j - 1) : Cmp(x, v[k]) >= 0
    IN  SubSeq(v, 1, p - 1) \o <<x>> \o SubSeq(v, p, Len(v)))

\* Array.prototype.sort with a comparator: stable.
SortBy(s, Cmp(_, _)) ==
  Bind(s, LAMBDA v :
    LET sorted[n \in 0..Len(v)] ==
          IF n = 0 THEN <<>> ELSE InsertSorted(v[n], sorted[n - 1], Cmp)
    IN  sorted[Len(v)])

\* reduce((sum, t) => sum + t, 0)
SumSeq(s) ==
  Bind(s, LAMBDA v :
    LET sum[n \in 0..Len(v)] == IF n = 0 THEN 0 ELSE sum[n - 1] + v[n]
    IN  sum[Len(v)])

\* The pushes of nested loops: the concatenation of a sequence of sequences.
Flatten(ss) ==
  Bind(ss, LAMBDA v :
    LET flat[n \in 0..Len(v)] == IF n = 0 THEN <<>> ELSE flat[n - 1] \o v[n]
    IN  flat[Len(v)])

(***************************************************************************)
(* time.ts                                                                 *)
(***************************************************************************)
\* An alignment that leaves the instant as it is.
alignToGridNone(t) == t

\* alignToGrid: minutes floored to a multiple of 15, seconds and ms zeroed.
alignToGrid(t) ==
  LET hour == t - (t % MsPerHour)
      minutes == (t % MsPerHour) \div MsPerMinute
  IN  hour + ((minutes \div GridMinutes) * GridMinutes) * MsPerMinute

\* alignToNextGrid: Math.ceil(minutes / 15) * 15 on the minutes field only,
\* then seconds and ms zeroed (setMinutes(60) rolls into the next hour).
alignToNextGrid(t) ==
  LET hour == t - (t % MsPerHour)
      minutes == (t % MsPerHour) \div MsPerMinute
  IN  hour + (((minutes + GridMinutes - 1) \div GridMinutes) * GridMinutes) * MsPerMinute

MinDurationMinutes == 30
MaxDurationMinutes == 180

isValidDuration(durationMinutes) ==
  /\ durationMinutes >= MinDurationMinutes
  /\ durationMinutes <= MaxDurationMinutes
  /\ durationMinutes % GridMinutes = 0

\* timeStringToDate(date, "HH:mm"); the time string is its minute of the day.
timeStringToDate(date, time) == date * DayMs + time * MsPerMinute

\* booking.start.split('T')[0]: the calendar date of an ISO instant.
DateOf(t) == t \div DayMs

(***************************************************************************)
(* gap_discovery (GapDiscoveryService)                                     *)
(***************************************************************************)
\* A filter that does not look at the status.
filterTableBookingsAnyStatus(bookings, tableId, date) ==
  Filter(bookings, LAMBDA b :
    /\ tableId \in Range(b.tableIds)
    /\ DateOf(b.start) = date)

filterTableBookings(bookings, tableId, date) ==
  Filter(bookings, LAMBDA b :
    /\ b.status = "CONFIRMED"
    /\ tableId \in Range(b.tableIds)
    /\ DateOf(b.start) = date)

CmpStart(a, b) == a.start - b.start

normalizeAndSortBookings(bookings) ==
  Bind(bookings, LAMBDA bs :
    SortBy([i \in 1..Len(bs) |->
              [start |-> alignToGrid(bs[i].start), end |-> alignToGrid(bs[i].end)]],
           CmpStart))

getDayStart(date) == alignToGrid(date * DayMs)

getDayEnd(date) == alignToNextGrid(date * DayMs + DayMs - 1000)

createGapAligned(start, end) ==
  [start |-> alignToGrid(start),
   end |-> alignToGrid(end),
   durationMinutes |-> (alignToGrid(end) - alignToGrid(start)) \div MsPerMinute]

\* A duration filter that keeps every gap.
filterByDurationAll(gaps, minDurationMinutes) == gaps

filterByDuration(gaps, minDurationMinutes) ==
  Filter(gaps, LAMBDA g : g.durationMinutes >= minDurationMinutes)

\* A window filter that keeps every gap.
filterByServiceWindowsAll(gaps, serviceWindows, date) == gaps

filterByServiceWindows(gaps, serviceWindows, date) ==
  Filter(gaps, LAMBDA g :
    \E i \in 1..Len(serviceWindows) :
      /\ g.start >= timeStringToDate(date, serviceWindows[i].start)
      /\ g.end <= timeStringToDate(date, serviceWindows[i].end))

\* The gaps between consecutive sorted bookings (loop of findGapsForTable).
RECURSIVE GapsBetween(_, _)
GapsBetween(sorted, i) ==
  IF i >= Len(sorted) THEN <<>>
  ELSE (IF sorted[i].end <= sorted[i + 1].start
        THEN <<createGapAligned(sorted[i].end, sorted[i + 1].start)>>
        ELSE <<>>) \o GapsBetween(sorted, i + 1)

\* throw new Error(message)
Thrown(message) == [thrown |-> message]

\* serviceWindows is Nil (undefined) or a sequence of [start, end].
findGapsForTable(table, bookings, date, durationMinutes, serviceWindows) ==
  IF ~isValidDuration(durationMinutes) THEN Thrown("Invalid duration") ELSE
  LET dayStart == getDayStart(date)
      dayEnd == getDayEnd(date)
      gapsOf(sortedBookings) ==
        IF Len(sortedBookings) = 0 THEN <<createGapAligned(dayStart, dayEnd)>>
        ELSE (IF sortedBookings[1].start > dayStart
              THEN <<createGapAligned(dayStart, sortedBookings[1].start)>>
              ELSE <<>>)
             \o GapsBetween(sortedBookings, 1)
             \o (IF sortedBookings[Len(sortedBookings)].end < dayEnd
                 THEN <<createGapAligned(sortedBookings[Len(sortedBookings)].end, dayEnd)>>
                 ELSE <<>>)
      gaps ==
        Bind(normalizeAndSortBookings(filterTableBookings(bookings, table.id, date)),
             gapsOf)
      validGaps == filterByDuration(gaps, durationMinutes)
  IN  IF serviceWindows # Nil /\ Len(serviceWindows) > 0
      THEN filterByServiceWindows(validGaps, serviceWindows, date)
      ELSE validGaps

(***************************************************************************)
(* combo_intersection.ts                                                   *)
(***************************************************************************)
RECURSIVE MergeLoop(_, _, _)
MergeLoop(sorted, i, current) ==
  IF i > Len(sorted) THEN <<current>>
  ELSE IF current.end >= sorted[i].start
       THEN Bind([start |-> current.start,
                  end |-> Max2(current.end, sorted[i].end),
                  durationMinutes |->
                    (Max2(current.end, sorted[i].end) - current.start) \div MsPerMinute],
                 LAMBDA merged : MergeLoop(sorted, i + 1, merged))
       ELSE <<current>> \o MergeLoop(sorted, i + 1, sorted[i])

mergeOverlappingGaps(gaps) ==
  Bind(SortBy(gaps, CmpStart), LAMBDA sorted :
    IF Len(sorted) = 0 THEN <<>> ELSE MergeLoop(sorted, 2, sorted[1]))

\* An intersection that keeps the first set as it is.
intersectTwoGapSetsFirst(gaps1, gaps2) == gaps1

intersectTwoGapSets(gaps1, gaps2) ==
  LET pair(g1, g2) ==
        LET overlapStart == Max2(g1.start, g2.start)
            overlapEnd == Min2(g1.end, g2.end)
        IN  IF overlapStart < overlapEnd
            THEN <<[start |-> overlapStart, end |-> overlapEnd,
                    durationMinutes |-> (overlapEnd - overlapStart) \div MsPerMinute]>>
            ELSE <<>>
      intersections ==
        Bind(gaps1, LAMBDA a : Bind(gaps2, LAMBDA b :
          Flatten([i \in 1..Len(a) |->
                     Flatten([j \in 1..Len(b) |-> pair(a[i], b[j])])])))
  IN  mergeOverlappingGaps(intersections)

RECURSIVE IntersectFrom(_, _, _)
IntersectFrom(gapsPerTable, i, result) ==
  IF i > Len(gapsPerTable) THEN result
  ELSE Bind(intersectTwoGapSets(result, gapsPerTable[i]),
            LAMBDA next : IntersectFrom(gapsPerTable, i + 1, next))

intersectGaps(gapsPerTable, minDurationMinutes) ==
  IF Len(gapsPerTable) = 0 THEN <<>>
  ELSE IF Len(gapsPerTable) = 1 THEN gapsPerTable[1]
  ELSE filterByDuration(IntersectFrom(gapsPerTable, 2, gapsPerTable[1]),
                        minDurationMinutes)

findComboGaps(tables, bookings, date, durationMinutes, serviceWindows) ==
  Bind([i \in 1..Len(tables) |->
          findGapsForTable(tables[i], bookings, date, durationMinutes, serviceWindows)],
       LAMBDA gapsPerTable :
         IF \E i \in 1..Len(tables) : Len(gapsPerTable[i]) = 0 THEN <<>>
         ELSE intersectGaps(gapsPerTable, durationMinutes))

(***************************************************************************)
(* candidate_builder.ts                                                    *)
(***************************************************************************)
createSingleCandidate(table, gap, partySize) ==
  [kind |-> "single",
   tableIds |-> <<table.id>>,
   gap |-> gap,
   capacity |-> [minSize |-> table.minSize, maxSize |-> table.maxSize],
   waste |-> table.maxSize - partySize]

\* A combo whose capacity is that of its largest table.
createComboCandidateLargest(tables, gap, partySize) ==
  [kind |-> "combo",
   tableIds |-> [i \in 1..Len(tables) |-> tables[i].id],
   gap |-> gap,
   capacity |-> [minSize |-> tables[1].minSize, maxSize |-> tables[1].maxSize],
   waste |-> tables[1].maxSize - partySize]

createComboCandidate(tables, gap, partySize) ==
  [kind |-> "combo",
   tableIds |-> [i \in 1..Len(tables) |-> tables[i].id],
   gap |-> gap,
   capacity |-> [minSize |-> SumSeq([i \in 1..Len(tables) |-> tables[i].minSize]),
                 maxSize |-> SumSeq([i \in 1..Len(tables) |-> tables[i].maxSize])],
   waste |-> SumSeq([i \in 1..Len(tables) |-> tables[i].maxSize]) - partySize]

(***************************************************************************)
(* wokibrain.ts                                                            *)
(***************************************************************************)
\* A comparator that looks at waste before kind and table count.
CompareCandidatesWasteFirst(a, b) ==
  IF a.waste # b.waste THEN a.waste - b.waste
  ELSE IF a.kind = "single" /\ b.kind = "combo" THEN -1
  ELSE IF a.kind = "combo" /\ b.kind = "single" THEN 1
  ELSE IF Len(a.tableIds) # Len(b.tableIds) THEN Len(a.tableIds) - Len(b.tableIds)
  ELSE a.gap.start - b.gap.start

\* The comparator of selectBestCandidate (and of filterAndSortCandidates).
CompareCandidates(a, b) ==
  IF a.kind = "single" /\ b.kind = "combo" THEN -1
  ELSE IF a.kind = "combo" /\ b.kind = "single" THEN 1
  ELSE IF Len(a.tableIds) # Len(b.tableIds) THEN Len(a.tableIds) - Len(b.tableIds)
  ELSE IF a.waste # b.waste THEN a.waste - b.waste
  ELSE a.gap.start - b.gap.start

\* A filter that keeps every candidate.
filterValidCandidatesAll(candidates, partySize) == candidates

filterValidCandidates(candidates, partySize) ==
  Filter(candidates, LAMBDA c :
    partySize >= c.capacity.minSize /\ partySize <= c.capacity.maxSize)

\* A selection that ranks waste before kind and table count.
selectBestCandidateWasteFirst(candidates) ==
  SortBy(candidates, CompareCandidatesWasteFirst)[1]

selectBestCandidate(candidates) == SortBy(candidates, CompareCandidates)[1]

selectBest(candidates, partySize) ==
  Bind(filterValidCandidates(candidates, partySize), LAMBDA validCandidates :
    IF Len(validCandidates) = 0
    THEN [candidate |-> Nil, hasCapacity |-> FALSE]
    ELSE [candidate |-> selectBestCandidate(validCandidates), hasCapacity |-> TRUE])

(***************************************************************************)
(* discover_seats.ts (DiscoverSeatsUseCase)                                *)
(***************************************************************************)
DefaultLimit == 10

\* windowStart / windowEnd are NoTime (undefined) or a minute of the day.
applyTimeWindow(serviceWindows, windowStart, windowEnd) ==
  IF serviceWindows = Nil \/ (windowStart = NoTime /\ windowEnd = NoTime)
  THEN serviceWindows
  ELSE LET overlapping ==
             Filter(serviceWindows, LAMBDA w :
               /\ ~(windowStart # NoTime /\ w.end <= windowStart)
               /\ ~(windowEnd # NoTime /\ w.start >= windowEnd))
       IN  [i \in 1..Len(overlapping) |->
              [start |-> IF windowStart # NoTime /\ overlapping[i].start < windowStart
                         THEN windowStart ELSE overlapping[i].start,
               end |-> IF windowEnd # NoTime /\ overlapping[i].end > windowEnd
                       THEN windowEnd ELSE overlapping[i].end]]

findSingleTableCandidates(tables, bookings, date, partySize, durationMinutes, serviceWindows, windowStart, windowEnd) ==
  Flatten([i \in 1..Len(tables) |->
    IF partySize < tables[i].minSize \/ partySize > tables[i].maxSize THEN <<>>
    ELSE Bind(findGapsForTable(tables[i], bookings, date, durationMinutes,
                applyTimeWindow(serviceWindows, windowStart, windowEnd)),
              LAMBDA gaps :
                [g \in 1..Len(gaps) |->
                   createSingleCandidate(tables[i], gaps[g], partySize)])])

\* Sequential combinations: the windows of `size` consecutive tables.
\* Combinations that also pair each table with the one two places after it.
generateCombinationsSkipping(tables, size) ==
  [i \in 1..(Len(tables) - size + 1) |-> SubSeq(tables, i, i + size - 1)]
  \o (IF size = 2 THEN [i \in 1..(Len(tables) - 2) |-> <<tables[i], tables[i + 2]>>]
      ELSE <<>>)

generateCombinations(tables, size) ==
  [i \in 1..(Len(tables) - size + 1) |-> SubSeq(tables, i, i + size - 1)]

findComboCandidates(tables, bookings, date, partySize, durationMinutes, serviceWindows, windowStart, windowEnd) ==
  LET filteredWindows == applyTimeWindow(serviceWindows, windowStart, windowEnd)
      ofCombo(combo) ==
        LET totalMinSize == SumSeq([i \in 1..Len(combo) |-> combo[i].minSize])
            totalMaxSize == SumSeq([i \in 1..Len(combo) |-> combo[i].maxSize])
        IN  IF partySize < totalMinSize \/ partySize > totalMaxSize THEN <<>>
            ELSE Bind(findComboGaps(combo, bookings, date, durationMinutes,
                                    filteredWindows),
                      LAMBDA comboGaps :
                        [g \in 1..Len(comboGaps) |->
                           createComboCandidate(combo, comboGaps[g], partySize)])
      ofSize(comboSize) ==
        LET combinations == generateCombinations(tables, comboSize)
        IN  Flatten([c \in 1..Len(combinations) |-> ofCombo(combinations[c])])
  IN  Flatten([k \in 1..(Len(tables) - 1) |-> ofSize(k + 1)])

\* A capacity filter that leaves the candidates in the order they were found.
filterAndSortCandidatesUnsorted(candidates, partySize) ==
  Filter(candidates, LAMBDA c :
           partySize >= c.capacity.minSize /\ partySize <= c.capacity.maxSize)

\* The comparator written out in filterAndSortCandidates, discovery's own
\* copy of the ordering.
CompareDiscovered(a, b) ==
  IF a.kind = "single" /\ b.kind = "combo" THEN -1
  ELSE IF a.kind = "combo" /\ b.kind = "single" THEN 1
  ELSE IF Len(a.tableIds) # Len(b.tableIds) THEN Len(a.tableIds) - Len(b.tableIds)
  ELSE IF a.waste # b.waste THEN a.waste - b.waste
  ELSE a.gap.start - b.gap.start

filterAndSortCandidates(candidates, partySize) ==
  SortBy(Filter(candidates, LAMBDA c :
                  partySize >= c.capacity.minSize /\ partySize <= c.capacity.maxSize),
         CompareDiscovered)

\* The API candidate keeps kind, tableIds and the gap's start and end as ISO
\* strings (instants with millisecond precision: the same integers).
convertToApiFormat(candidates) ==
  Bind(candidates, LAMBDA cs :
    [i \in 1..Len(cs) |->
       [kind |-> cs[i].kind,
        tableIds |-> cs[i].tableIds,
        start |-> cs[i].gap.start,
        end |-> cs[i].gap.end]])

\* DiscoverSeatsUseCase.execute: the candidates of the response.
DiscoverSeats(tables, bookings, date, partySize, durationMinutes, serviceWindows, windowStart, windowEnd, limit) ==
  LET singleCandidates ==
        findSingleTableCandidates(tables, bookings, date, partySize, durationMinutes,
                                  serviceWindows, windowStart, windowEnd)
      comboCandidates ==
        findComboCandidates(tables, bookings, date, partySize, durationMinutes,
                            serviceWindows, windowStart, windowEnd)
  IN  Bind(filterAndSortCandidates(singleCandidates \o comboCandidates, partySize),
           LAMBDA validCandidates :
             convertToApiFormat(
               SubSeq(validCandidates, 1, Min2(limit, Len(validCandidates)))))

(***************************************************************************)
(* The catalog (restaurant, sector and table repositories): read-only.     *)
(***************************************************************************)
Restaurants == {[id |-> "R1", windows |-> Nil]}

\* S1 holds the tables; S2 belongs to another restaurant; S3 has no tables.
Sectors ==
  {[id |-> "S1", restaurantId |-> "R1"], [id |-> "S2", restaurantId |-> "R2"],
   [id |-> "S3", restaurantId |-> "R1"]}

Tables ==
  << [id |-> "T1", sectorId |-> "S1", minSize |-> 2, maxSize |-> 4],
     [id |-> "T2", sectorId |-> "S1", minSize |-> 2, maxSize |-> 4] >>

\* The order of table ids as strings (Array.prototype.sort without comparator).
IdOrder == <<"T1", "T1+T2", "T2">>
IdRank(id) == CHOOSE i \in 1..Len(IdOrder) : IdOrder[i] = id
CmpId(a, b) == IdRank(a) - IdRank(b)

RestaurantFindById(id) ==
  IF \E x \in Restaurants : x.id = id THEN CHOOSE x \in Restaurants : x.id = id ELSE Nil

SectorFindById(id) ==
  IF \E x \in Sectors : x.id = id THEN CHOOSE x \in Sectors : x.id = id ELSE Nil

\* A lookup that returns every table whatever the sector.
TableFindAll(sectorId) == Tables

TableFindBySectorId(sectorId) == Filter(Tables, LAMBDA t : t.sectorId = sectorId)

(***************************************************************************)
(* The requests the model submits.                                         *)
(***************************************************************************)
\* The execute() calls, named in the order in which they arrive.
Reqs == {"r1", "r2"}
ArrivesBefore(q, r) == q = "r1" /\ r = "r2"

Keys == {"k1", "k2"}

PartySizes == {2, 6}

Durations == {90}

Inputs ==
  [restaurantId : {"R1"}, sectorId : {"S1"}, partySize : PartySizes,
   durationMinutes : Durations, date : {0}, windowStart : {NoTime}, windowEnd : {NoTime},
   idempotencyKey : Keys]

\* Keys are named in the order of their first use: the first call uses k1.
InputsOf(r) == {i \in Inputs : r = "r1" => i.idempotencyKey = "k1"}

LockTTL == 5000
IdemTTL == 60000

\* Wall-clock steps: one lock TTL, or one idempotency TTL.
TickSteps == {LockTTL, IdemTTL}

\* The ledger never holds more bookings than this (a bound of the model).
MaxBookings == 4

H(h, m) == (h * 60 + m) * MsPerMinute

\* Ledgers the system can start from: no two bookings overlap on a table.
InitLedgers ==
  { << [id |-> 1, restaurantId |-> "R1", sectorId |-> "S1", tableIds |-> <<"T1">>,
        partySize |-> 2, start |-> H(20, 0), end |-> H(21, 30),
        durationMinutes |-> 90, status |-> "CONFIRMED"] >> }

VARIABLES
  bookingStore,   \* InMemoryBookingRepository.store, in insertion order
  locks,          \* InMemoryLockManager.locks: key -> [age, ttl, owner]
  idemStore,      \* InMemoryIdempotencyStore.store: key -> [booking, age, ttl]
  idemTimers,     \* pending expiry timers whose entry was overwritten or deleted
  req,            \* each execute() call: where it is suspended and its locals
  obs,            \* per call: what it has done so far (history, not program state)
  createdBy,      \* per booking of the store: the idempotency key that created it
  sinceSet,       \* per key: the time since its last idempotencyStore.set, or NoTime
  probe           \* a call of a domain service on its own: its arguments and result

vars == <<bookingStore, locks, idemStore, idemTimers, req, obs, createdBy, sinceSet, probe>>

(***************************************************************************)
(* InMemoryBookingRepository                                               *)
(***************************************************************************)
findByRestaurantAndDate(store, restaurantId, date) ==
  Filter(store, LAMBDA b : b.restaurantId = restaurantId /\ DateOf(b.start) = date)

\* save: ids are fresh, so Map.set appends.
\* A save that loses the booking.
BookingSaveLost(store, booking) == store

BookingSave(store, booking) == Append(store, booking)

(***************************************************************************)
(* InMemoryLockManager                                                     *)
(***************************************************************************)
Without(f, k) == [x \in DOMAIN f \ {k} |-> f[x]]

\* A sweep that removes nothing.
cleanExpiredLocksNone(lk) == lk

cleanExpiredLocks(lk) ==
  [k \in {x \in DOMAIN lk : ~(lk[x].age > lk[x].ttl)} |-> lk[k]]

\* An acquire that takes the key whether or not it is held.
LockAcquireSteal(lk, key, ttl, owner) ==
  [locks |-> (key :> [age |-> 0, ttl |-> ttl, owner |-> owner]) @@ lk,
   acquired |-> TRUE]

\* acquire(key, ttl) by call `owner`: the new lock table and the returned flag.
LockAcquire(lk, key, ttl, owner) ==
  LET cleaned == cleanExpiredLocks(lk)
  IN  IF key \in DOMAIN cleaned
      THEN [locks |-> cleaned, acquired |-> FALSE]
      ELSE [locks |-> (key :> [age |-> 0, ttl |-> ttl, owner |-> owner]) @@ cleaned,
            acquired |-> TRUE]

\* A release that leaves the key in the table.
LockReleaseKeeps(lk, key) == lk

LockRelease(lk, key) == IF key \in DOMAIN lk THEN Without(lk, key) ELSE lk

(***************************************************************************)
(* InMemoryIdempotencyStore                                                *)
(***************************************************************************)
\* A sweep that removes nothing.
cleanExpiredEntriesNone(st) == st

\* expiresAt < now, with expiresAt = setAt + ttl and age = now - setAt.
cleanExpiredEntries(st) ==
  [k \in {x \in DOMAIN st : ~(st[x].age > st[x].ttl)} |-> st[k]]

IdemGet(st, key) ==
  LET cleaned == cleanExpiredEntries(st)
  IN  [store |-> cleaned,
       booking |-> IF key \in DOMAIN cleaned THEN cleaned[key].booking ELSE Nil]

\* A set that stores nothing.
IdemSetDrop(st, timers, key, booking, ttl) == [store |-> st, timers |-> timers]

\* set does not clear the timer of an entry it overwrites: that timer stays pending.
IdemSet(st, timers, key, booking, ttl) ==
  LET cleaned == cleanExpiredEntries(st)
  IN  [store |-> (key :> [booking |-> booking, age |-> 0, ttl |-> ttl]) @@ cleaned,
       timers |-> IF key \in DOMAIN cleaned
                  THEN timers \cup {[key |-> key, age |-> cleaned[key].age,
                                     ttl |-> cleaned[key].ttl]}
                  ELSE timers]

(***************************************************************************)
(* create_booking.ts (CreateBookingUseCase)                                *)
(***************************************************************************)
\* A validation that looks at the duration only.
validateInputsDurationOnly(partySize, durationMinutes) == isValidDuration(durationMinutes)

\* TRUE when nothing is thrown (Number.isInteger: membership in Int).
validateInputs(partySize, durationMinutes) ==
  ~(partySize <= 0 \/ partySize \notin Int) /\ isValidDuration(durationMinutes)

convertToDomainCandidates(apiCandidates, tables, partySize) ==
  [i \in 1..Len(apiCandidates) |->
     LET c == apiCandidates[i]
         candidateTables ==
           [j \in 1..Len(c.tableIds) |->
              CHOOSE t \in Range(tables) : t.id = c.tableIds[j]]
         maxSize == SumSeq([j \in 1..Len(candidateTables) |-> candidateTables[j].maxSize])
     IN  [kind |-> c.kind,
          tableIds |-> c.tableIds,
          gap |-> [start |-> c.start, end |-> c.end,
                   durationMinutes |-> (c.end - c.start) \div MsPerMinute],
          capacity |->
            [minSize |-> SumSeq([j \in 1..Len(candidateTables) |->
                                   candidateTables[j].minSize]),
             maxSize |-> maxSize],
          waste |-> maxSize - partySize]]

\* The characters of the ids that keys are made of.
Spelling ==
  ("R1" :> <<"R", "1">>) @@ ("R1|S1" :> <<"R", "1", "|", "S", "1">>)
  @@ ("S1" :> <<"S", "1">>) @@ ("S2" :> <<"S", "2">>)
  @@ ("S1|S2" :> <<"S", "1", "|", "S", "2">>)
  @@ ("T1" :> <<"T", "1">>) @@ ("T2" :> <<"T", "2">>)
  @@ ("T1+T2" :> <<"T", "1", "+", "T", "2">>)

\* Array.prototype.join on strings given as character sequences.
JoinWith(parts, sep) ==
  LET j[n \in 0..Len(parts)] ==
        IF n = 0 THEN <<>>
        ELSE IF n = 1 THEN parts[1]
        ELSE j[n - 1] \o <<sep>> \o parts[n]
  IN  j[Len(parts)]

\* Date.prototype.toISOString: one token per instant, free of '|' and '+'.
toISOString(t) == <<ToString(t)>>

\* `${restaurantId}|${sectorId}|${tableIds.sort().join('+')}|${start.toISOString()}`
generateLockKey(restaurantId, sectorId, tableIds, start) ==
  JoinWith(<<Spelling[restaurantId], Spelling[sectorId],
             JoinWith([i \in 1..Len(tableIds) |->
                         Spelling[SortBy(tableIds, CmpId)[i]]], "+"),
             toISOString(start)>>, "|")

\* The loop of checkCollision over the bookings, from index i on.
RECURSIVE CollisionFrom(_, _, _, _)
CollisionFrom(candidate, existingBookings, tableIds, i) ==
  IF i > Len(existingBookings) THEN FALSE
  ELSE LET booking == existingBookings[i]
       IN  IF booking.status # "CONFIRMED"
           THEN CollisionFrom(candidate, existingBookings, tableIds, i + 1)
           ELSE IF ~(\E id \in Range(booking.tableIds) : id \in Range(tableIds))
           THEN CollisionFrom(candidate, existingBookings, tableIds, i + 1)
           ELSE IF candidate.gap.start < booking.end /\ candidate.gap.end > booking.start
           THEN TRUE
           ELSE CollisionFrom(candidate, existingBookings, tableIds, i + 1)

\* A collision check on closed intervals: touching bookings collide.
checkCollisionClosed(candidate, existingBookings, tableIds) ==
  \E i \in 1..Len(existingBookings) :
    /\ existingBookings[i].status = "CONFIRMED"
    /\ Range(existingBookings[i].tableIds) \cap Range(tableIds) # {}
    /\ candidate.gap.start <= existingBookings[i].end
    /\ candidate.gap.end >= existingBookings[i].start

checkCollision(candidate, existingBookings, tableIds) ==
  CollisionFrom(candidate, existingBookings, tableIds, 1)

\* A response that carries the booking under a fresh id.
bookingToResponseFresh(booking) ==
  [id |-> booking.id + 1, restaurantId |-> booking.restaurantId,
   sectorId |-> booking.sectorId, tableIds |-> booking.tableIds,
   partySize |-> booking.partySize, start |-> booking.start, end |-> booking.end,
   durationMinutes |-> booking.durationMinutes, status |-> booking.status]

bookingToResponse(booking) ==
  [id |-> booking.id, restaurantId |-> booking.restaurantId,
   sectorId |-> booking.sectorId, tableIds |-> booking.tableIds,
   partySize |-> booking.partySize, start |-> booking.start, end |-> booking.end,
   durationMinutes |-> booking.durationMinutes, status |-> booking.status]

\* Steps 5-7 of execute: the selected candidate (tableIds sorted in place by
\* generateLockKey) and its lock key, or Nil when there is no capacity.
SelectCandidate(input, restaurant, tables, existingBookings) ==
  Bind(DiscoverSeats(tables, existingBookings, input.date, input.partySize,
                     input.durationMinutes, restaurant.windows,
                     input.windowStart, input.windowEnd, DefaultLimit),
       LAMBDA discovered :
         IF Len(discovered) = 0 THEN Nil
         ELSE Bind(selectBest(convertToDomainCandidates(discovered, tables,
                                                        input.partySize),
                              input.partySize),
                   LAMBDA bestResult :
                     IF ~bestResult.hasCapacity \/ bestResult.candidate = Nil THEN Nil
                     ELSE LET c == bestResult.candidate
                          IN  [candidate |->
                                 [c EXCEPT !.tableIds = SortBy(c.tableIds, CmpId)],
                               lockKey |->
                                 generateLockKey(input.restaurantId, input.sectorId,
                                                 c.tableIds, c.gap.start)]))

Ok(response) == [ok |-> TRUE, response |-> response, error |-> "none"]
Err(code) == [ok |-> FALSE, response |-> Nil, error |-> code]

\* A call that is not running: no locals.
IdleReq ==
  [pc |-> "idle", input |-> Nil, existing |-> Nil, restaurant |-> Nil, sector |-> Nil,
   tables |-> Nil, existingBookings |-> Nil, selected |-> Nil, lockKey |-> Nil,
   lockAcquired |-> FALSE, currentBookings |-> Nil, savedBooking |-> Nil,
   pending |-> Nil, outcome |-> Nil]

ZeroOps ==
  [catalogRead |-> 0, ledgerRead |-> 0, ledgerAppend |-> 0, lockAcquire |-> 0,
   lockRelease |-> 0, idemGet |-> 0, idemSet |-> 0]

NoObs ==
  [ops |-> ZeroOps, hit |-> Nil, elapsed |-> NoTime, selected |-> Nil,
   lockBefore |-> "none", holder |-> "none", acquired |-> FALSE, kept |-> FALSE,
   overlap |-> FALSE, lockAtAppend |-> FALSE]

Bump(o, op) == [o EXCEPT !.ops[op] = @ + 1]

Running(r) == req[r].pc \notin {"idle", "done"}

\* A call that starts over from step 3 when it ends in a conflict.
FinishRetrying(r, outcome) ==
  IF outcome = [ok |-> FALSE, response |-> Nil, error |-> "conflict"]
  THEN [req EXCEPT ![r] = [IdleReq EXCEPT !.pc = "awaitIdemGet", !.input = req[r].input]]
  ELSE [req EXCEPT ![r] = [IdleReq EXCEPT !.pc = "done", !.input = req[r].input,
                                          !.outcome = outcome]]

\* The call returns or throws: its locals are gone, the outcome is delivered.
Finish(r, outcome) ==
  [req EXCEPT ![r] = [IdleReq EXCEPT !.pc = "done", !.input = req[r].input,
                                      !.outcome = outcome]]

\* A CONFIRMED booking of the list shares a table with the candidate and
\* overlaps it (half-open intervals).
Overlaps(candidate, bookings) ==
  \E i \in 1..Len(bookings) :
    /\ bookings[i].status = "CONFIRMED"
    /\ Range(bookings[i].tableIds) \cap Range(candidate.tableIds) # {}
    /\ candidate.gap.start < bookings[i].end
    /\ candidate.gap.end > bookings[i].start

\* The state of a lock key as the caller of acquire finds it.
LockState(lk, key) ==
  IF key \notin DOMAIN lk THEN "free"
  ELSE IF lk[key].age > lk[key].ttl THEN "expired" ELSE "held"

Init ==
  /\ bookingStore \in InitLedgers
  /\ locks = <<>>
  /\ idemStore = <<>>
  /\ idemTimers = {}
  /\ req = [r \in Reqs |-> IdleReq]
  /\ obs = [r \in Reqs |-> NoObs]
  /\ createdBy = [i \in 1..Len(bookingStore) |-> "none"]
  /\ sinceSet = [k \in Keys |-> NoTime]
  /\ probe = Nil

\* execute() is called: steps 1-2 up to the await of idempotencyStore.get.
Start(r, input) ==
  /\ req[r].pc = "idle"
  /\ \A q \in Reqs : ArrivesBefore(q, r) => req[q].pc # "idle"
  /\ IF ~validateInputs(input.partySize, input.durationMinutes)
     THEN /\ req' = [req EXCEPT ![r] = [IdleReq EXCEPT !.pc = "done", !.input = input,
                                                       !.outcome = Err("invalid_input")]]
          /\ obs' = [obs EXCEPT ![r] = NoObs]
          /\ UNCHANGED idemStore
     ELSE LET got == IdemGet(idemStore, input.idempotencyKey)
          IN  /\ idemStore' = got.store
              /\ req' = [req EXCEPT ![r] = [IdleReq EXCEPT !.pc = "awaitIdemGet",
                                                           !.input = input,
                                                           !.existing = got.booking]]
              /\ obs' = [obs EXCEPT ![r] = [Bump(NoObs, "idemGet") EXCEPT
                                              !.hit = got.booking,
                                              !.elapsed = sinceSet[input.idempotencyKey]]]
  /\ UNCHANGED <<bookingStore, locks, idemTimers, createdBy, sinceSet>>
  /\ UNCHANGED probe

\* Step 2 resumes: a hit returns the stored booking; else step 3 starts.
AfterIdemGet(r) ==
  /\ req[r].pc = "awaitIdemGet"
  /\ IF req[r].existing # Nil
     THEN /\ req' = Finish(r, Ok(bookingToResponse(req[r].existing)))
          /\ UNCHANGED obs
     ELSE /\ req' = [req EXCEPT ![r].pc = "awaitRestaurant",
                                ![r].existing = Nil,
                                ![r].restaurant = RestaurantFindById(req[r].input.restaurantId)]
          /\ obs' = [obs EXCEPT ![r] = Bump(@, "catalogRead")]
  /\ UNCHANGED <<bookingStore, locks, idemStore, idemTimers, createdBy, sinceSet>>
  /\ UNCHANGED probe

AfterRestaurant(r) ==
  /\ req[r].pc = "awaitRestaurant"
  /\ IF req[r].restaurant = Nil
     THEN /\ req' = Finish(r, Err("not_found"))
          /\ UNCHANGED obs
     ELSE /\ req' = [req EXCEPT ![r].pc = "awaitSector",
                                ![r].sector = SectorFindById(req[r].input.sectorId)]
          /\ obs' = [obs EXCEPT ![r] = Bump(@, "catalogRead")]
  /\ UNCHANGED <<bookingStore, locks, idemStore, idemTimers, createdBy, sinceSet>>
  /\ UNCHANGED probe

AfterSector(r) ==
  /\ req[r].pc = "awaitSector"
  /\ IF req[r].sector = Nil \/ req[r].sector.restaurantId # req[r].input.restaurantId
     THEN /\ req' = Finish(r, Err("not_found"))
          /\ UNCHANGED obs
     ELSE /\ req' = [req EXCEPT ![r].pc = "awaitTables",
                                ![r].sector = Nil,
                                ![r].tables = TableFindBySectorId(req[r].input.sectorId)]
          /\ obs' = [obs EXCEPT ![r] = Bump(@, "catalogRead")]
  /\ UNCHANGED <<bookingStore, locks, idemStore, idemTimers, createdBy, sinceSet>>
  /\ UNCHANGED probe

\* Step 4: the read of the day's bookings is issued.
AfterTables(r) ==
  /\ req[r].pc = "awaitTables"
  /\ IF Len(req[r].tables) = 0
     THEN /\ req' = Finish(r, Err("not_found"))
          /\ UNCHANGED obs
     ELSE /\ req' = [req EXCEPT ![r].pc = "awaitBookings",
                                ![r].existingBookings =
                                  findByRestaurantAndDate(bookingStore,
                                    req[r].input.restaurantId, req[r].input.date)]
          /\ obs' = [obs EXCEPT ![r] = Bump(@, "ledgerRead")]
  /\ UNCHANGED <<bookingStore, locks, idemStore, idemTimers, createdBy, sinceSet>>
  /\ UNCHANGED probe

\* Steps 5-8: discovery, selection, lock key, and the call of acquire.
AfterBookings(r) ==
  /\ req[r].pc = "awaitBookings"
  /\ \E sel \in {SelectCandidate(req[r].input, req[r].restaurant, req[r].tables,
                                  req[r].existingBookings)} :
         IF sel = Nil
         THEN /\ req' = Finish(r, Err("no_capacity"))
              /\ UNCHANGED <<obs, locks>>
         ELSE LET got == LockAcquire(locks, sel.lockKey, LockTTL, r)
              IN  /\ locks' = got.locks
                  /\ req' = [req EXCEPT ![r].pc = "awaitAcquire",
                                        ![r].restaurant = Nil,
                                        ![r].tables = Nil,
                                        ![r].existingBookings = Nil,
                                        ![r].selected = sel.candidate,
                                        ![r].lockKey = sel.lockKey,
                                        ![r].lockAcquired = got.acquired]
                  /\ obs' = [obs EXCEPT ![r] = [Bump(@, "lockAcquire") EXCEPT
                                                  !.selected = sel.candidate,
                                                  !.lockBefore =
                                                    LockState(locks, sel.lockKey),
                                                  !.holder =
                                                    IF sel.lockKey \in DOMAIN locks
                                                    THEN locks[sel.lockKey].owner
                                                    ELSE "none",
                                                  !.acquired = got.acquired,
                                                  !.kept =
                                                    /\ sel.lockKey \in DOMAIN locks
                                                    /\ sel.lockKey \in DOMAIN got.locks
                                                    /\ got.locks[sel.lockKey] =
                                                         locks[sel.lockKey]]]
  /\ UNCHANGED <<bookingStore, idemStore, idemTimers, createdBy, sinceSet>>
  /\ UNCHANGED probe

\* Step 8 resumes: Conflict when the lock was not acquired; else step 9 reads.
AfterAcquire(r) ==
  /\ req[r].pc = "awaitAcquire"
  /\ IF ~req[r].lockAcquired
     THEN /\ req' = Finish(r, Err("conflict"))
          /\ UNCHANGED obs
     ELSE /\ req' = [req EXCEPT ![r].pc = "awaitRecheck",
                                ![r].currentBookings =
                                  findByRestaurantAndDate(bookingStore,
                                    req[r].input.restaurantId, req[r].input.date)]
          /\ obs' = [obs EXCEPT ![r] = Bump(@, "ledgerRead")]
  /\ UNCHANGED <<bookingStore, locks, idemStore, idemTimers, createdBy, sinceSet>>
  /\ UNCHANGED probe

\* Steps 9-11: collision check; Conflict goes to finally, else the booking is
\* created and save is called.
AfterRecheck(r) ==
  /\ req[r].pc = "awaitRecheck"
  /\ LET c == req[r].selected
         seen == Overlaps(c, req[r].currentBookings)
     IN  IF checkCollision(c, req[r].currentBookings, c.tableIds)
         THEN /\ locks' = LockRelease(locks, req[r].lockKey)
              /\ req' = [req EXCEPT ![r].pc = "awaitRelease",
                                    ![r].currentBookings = Nil,
                                    ![r].pending = Err("conflict")]
              /\ obs' = [obs EXCEPT ![r] = [Bump(@, "lockRelease") EXCEPT
                                              !.overlap = seen]]
              /\ UNCHANGED <<bookingStore, createdBy>>
         ELSE LET booking ==
                    [id |-> Len(bookingStore) + 1,
                     restaurantId |-> req[r].input.restaurantId,
                     sectorId |-> req[r].input.sectorId,
                     tableIds |-> c.tableIds,
                     partySize |-> req[r].input.partySize,
                     start |-> c.gap.start,
                     end |-> c.gap.end,
                     durationMinutes |-> req[r].input.durationMinutes,
                     status |-> "CONFIRMED"]
              IN  /\ Len(bookingStore) < MaxBookings
                  /\ bookingStore' = BookingSave(bookingStore, booking)
                  /\ createdBy' = Append(createdBy, req[r].input.idempotencyKey)
                  /\ req' = [req EXCEPT ![r].pc = "awaitSave",
                                        ![r].currentBookings = Nil,
                                        ![r].savedBooking = booking]
                  /\ obs' = [obs EXCEPT ![r] = [Bump(@, "ledgerAppend") EXCEPT
                                                  !.overlap = seen,
                                                  !.lockAtAppend =
                                                    /\ LockState(locks, req[r].lockKey) = "held"
                                                    /\ locks[req[r].lockKey].owner = r]]
                  /\ UNCHANGED locks
  /\ UNCHANGED <<idemStore, idemTimers, sinceSet>>
  /\ UNCHANGED probe

\* Step 12: idempotencyStore.set is called.
AfterSave(r) ==
  /\ req[r].pc = "awaitSave"
  /\ LET put == IdemSet(idemStore, idemTimers, req[r].input.idempotencyKey,
                        req[r].savedBooking, IdemTTL)
     IN  /\ idemStore' = put.store
         /\ idemTimers' = put.timers
  /\ req' = [req EXCEPT ![r].pc = "awaitIdemSet"]
  /\ obs' = [obs EXCEPT ![r] = Bump(@, "idemSet")]
  /\ sinceSet' = [sinceSet EXCEPT ![req[r].input.idempotencyKey] = 0]
  /\ UNCHANGED <<bookingStore, locks, createdBy>>
  /\ UNCHANGED probe

\* The return value is computed, then finally calls release.
AfterIdemSet(r) ==
  /\ req[r].pc = "awaitIdemSet"
  /\ locks' = LockRelease(locks, req[r].lockKey)
  /\ req' = [req EXCEPT ![r].pc = "awaitRelease",
                        ![r].pending = Ok(bookingToResponse(req[r].savedBooking)),
                        ![r].savedBooking = Nil]
  /\ obs' = [obs EXCEPT ![r] = Bump(@, "lockRelease")]
  /\ UNCHANGED <<bookingStore, idemStore, idemTimers, createdBy, sinceSet>>
  /\ UNCHANGED probe

\* release has resolved: the call returns or rethrows.
AfterRelease(r) ==
  /\ req[r].pc = "awaitRelease"
  /\ req' = Finish(r, req[r].pending)
  /\ UNCHANGED <<bookingStore, locks, idemStore, idemTimers, obs, createdBy, sinceSet>>
  /\ UNCHANGED probe

(***************************************************************************)
(* Time and the setTimeout callbacks                                       *)
(***************************************************************************)
Older(e, d) == [e EXCEPT !.age = IF e.age + d > e.ttl THEN e.ttl + 1 ELSE e.age + d]

\* Time passes.  It is followed in steps of a lock TTL while a lock entry is
\* still within its TTL, and in steps of an idempotency TTL at any time.
Tick(d) ==
  /\ d = LockTTL => \E k \in DOMAIN locks : locks[k].age <= locks[k].ttl
  /\ locks' = [k \in DOMAIN locks |-> Older(locks[k], d)]
  /\ idemStore' = [k \in DOMAIN idemStore |-> Older(idemStore[k], d)]
  /\ idemTimers' = {Older(t, d) : t \in idemTimers}
  /\ sinceSet' = [k \in Keys |->
                    IF sinceSet[k] = NoTime THEN NoTime
                    ELSE IF sinceSet[k] + d > IdemTTL THEN IdemTTL + 1
                    ELSE sinceSet[k] + d]
  /\ <<locks', idemStore', idemTimers'>> # <<locks, idemStore, idemTimers>>
  /\ UNCHANGED <<bookingStore, req, obs, createdBy>>
  /\ UNCHANGED probe

\* The auto-expiration callback of a lock entry.
LockTimerFire(key) ==
  /\ key \in DOMAIN locks
  /\ locks[key].age >= locks[key].ttl
  /\ locks' = Without(locks, key)
  /\ UNCHANGED <<bookingStore, idemStore, idemTimers, req, obs, createdBy, sinceSet>>
  /\ UNCHANGED probe

\* The auto-expiration callback of the entry stored under key.
IdemTimerFire(key) ==
  /\ key \in DOMAIN idemStore
  /\ idemStore[key].age >= idemStore[key].ttl
  /\ idemStore' = Without(idemStore, key)
  /\ UNCHANGED <<bookingStore, locks, idemTimers, req, obs, createdBy, sinceSet>>
  /\ UNCHANGED probe

\* The callback of a timer whose own entry is gone: it deletes whatever is
\* stored under its key now (that entry's timer stays pending).
StaleIdemTimerFire(t) ==
  /\ t \in idemTimers
  /\ t.age >= t.ttl
  /\ idemStore' = IF t.key \in DOMAIN idemStore THEN Without(idemStore, t.key)
                  ELSE idemStore
  /\ idemTimers' = (idemTimers \ {t}) \cup
                   (IF t.key \in DOMAIN idemStore
                    THEN {[key |-> t.key, age |-> idemStore[t.key].age,
                           ttl |-> idemStore[t.key].ttl]}
                    ELSE {})
  /\ UNCHANGED <<bookingStore, locks, req, obs, createdBy, sinceSet>>
  /\ UNCHANGED probe

\* An awaited call inside the try block (the re-read, save or set) rejects:
\* finally calls release and the error propagates.
Rejects(r) ==
  /\ req[r].pc \in {"awaitRecheck", "awaitSave", "awaitIdemSet"}
  /\ locks' = LockRelease(locks, req[r].lockKey)
  /\ req' = [req EXCEPT ![r].pc = "awaitRelease",
                        ![r].currentBookings = Nil,
                        ![r].savedBooking = Nil,
                        ![r].pending = Err("unexpected")]
  /\ obs' = [obs EXCEPT ![r] = Bump(@, "lockRelease")]
  /\ UNCHANGED <<bookingStore, idemStore, idemTimers, createdBy, sinceSet>>
  /\ UNCHANGED probe

Step(r) ==
  \/ AfterIdemGet(r)
  \/ AfterRestaurant(r)
  \/ AfterSector(r)
  \/ AfterTables(r)
  \/ AfterBookings(r)
  \/ AfterAcquire(r)
  \/ AfterRecheck(r)
  \/ AfterSave(r)
  \/ AfterIdemSet(r)
  \/ AfterRelease(r)

Clock ==
  \/ \E d \in TickSteps : Tick(d)
  \/ \E key \in DOMAIN locks : LockTimerFire(key)
  \/ \E key \in DOMAIN idemStore : IdemTimerFire(key)

Next ==
  \/ \E r \in Reqs : \E input \in InputsOf(r) : Start(r, input)
  \/ \E r \in Reqs : Step(r)
  \/ Clock
  \/ \E t \in idemTimers : StaleIdemTimerFire(t)

\* Concurrent calls of execute(), every await a point where another call,
\* a timer callback or the passing of time can come in between.
Spec == Init /\ [][Next]_vars

\* The same with calls inside the try block that can fail.
NextFaults ==
  \/ Next
  \/ \E r \in Reqs : Rejects(r)

SpecFaults == Init /\ [][NextFaults]_vars

\* One call at a time: a call starts only when no other call is running (no
\* entry is ever overwritten, so no timer outlives its entry).
NextSeq ==
  \/ \E r \in Reqs : \E input \in InputsOf(r) :
       (\A q \in Reqs : ~Running(q)) /\ Start(r, input)
  \/ \E r \in Reqs : Step(r)
  \/ Clock

SpecSeq == Init /\ [][NextSeq]_vars

(***************************************************************************)
(* The domain services called on their own (as the unit tests call them).  *)
(***************************************************************************)
\* Tables of the selection tests: T1(2,4), T2(2,6), T3(2,2), T4(2,2).
SelectTables ==
  [T1 |-> [id |-> "T1", sectorId |-> "S1", minSize |-> 2, maxSize |-> 4],
   T2 |-> [id |-> "T2", sectorId |-> "S1", minSize |-> 2, maxSize |-> 6],
   T3 |-> [id |-> "T3", sectorId |-> "S1", minSize |-> 2, maxSize |-> 2],
   T4 |-> [id |-> "T4", sectorId |-> "S1", minSize |-> 2, maxSize |-> 2]]

\* createTimeGap(hour, minute, durationMinutes)
createTimeGap(hour, minute, durationMinutes) ==
  [start |-> H(hour, minute),
   end |-> H(hour, minute) + durationMinutes * MsPerMinute,
   durationMinutes |-> durationMinutes]

SelectGaps == {createTimeGap(20, 0, 90), createTimeGap(21, 0, 90)}

SelectPartySizes == {2, 3, 4, 7}

\* The candidates the builder makes for a party: every table alone and the
\* combo T3+T4, in each gap.
CandidatePool(partySize) ==
  {createSingleCandidate(SelectTables[t], g, partySize) :
     t \in DOMAIN SelectTables, g \in SelectGaps}
  \cup {createComboCandidate(<<SelectTables.T3, SelectTables.T4>>, g, partySize) :
          g \in SelectGaps}

MaxCandidates == 3

SeqsUpTo(S, n) == UNION {[1..k -> S] : k \in 0..n}

\* A call of selectBest that has not been made yet.
SelectCases ==
  UNION {{[service |-> "wokibrain", call |-> "none", candidates |-> cs,
           partySize |-> p, permuted |-> Nil, result |-> Nil, permutedResult |-> Nil] :
            cs \in SeqsUpTo(CandidatePool(p), MaxCandidates)} : p \in SelectPartySizes}

\* Instants of day 0 that bookings start and end at: on and off the grid, one
\* with seconds.
BookingTimes ==
  {H(10, 0), H(10, 5) + 30000, H(11, 0), H(11, 20), H(12, 0), H(14, 0)}

\* Bookings of the sector on day 0 (any two may overlap: the ledger is an input).
BookingPool ==
  {[id |-> 0, restaurantId |-> "R1", sectorId |-> "S1", tableIds |-> <<t>>,
    partySize |-> 2, start |-> i[1], end |-> i[2],
    durationMinutes |-> (i[2] - i[1]) \div MsPerMinute, status |-> st] :
     t \in {"T1", "T2"},
     i \in {x \in BookingTimes \X BookingTimes : x[1] < x[2]},
     st \in {"CONFIRMED", "CANCELLED"}}

MaxLedger == 2

\* undefined, no window, one window 10:00-12:00, two windows 00:00-10:05 and
\* 11:00-12:00 (minutes of the day).
WindowChoices ==
  {Nil, <<>>, <<[start |-> 600, end |-> 720]>>,
   <<[start |-> 0, end |-> 605], [start |-> 660, end |-> 720]>>}

GapDurations == {30, 90}

\* A call of the gap services or of discovery that has not been made yet.
GapCases ==
  {[service |-> "gaps", call |-> "none", bookings |-> bs, date |-> 0,
    durationMinutes |-> d, serviceWindows |-> w,
    tables |-> Nil, partySize |-> 0, result |-> Nil] :
     bs \in SeqsUpTo(BookingPool, MaxLedger), d \in GapDurations, w \in WindowChoices}

\* Candidates handed to the re-validation: a gap start and a duration.
CollisionCandidates ==
  {[tableIds |-> ids, gap |-> [start |-> a, end |-> a + d * MsPerMinute]] :
     ids \in {<<"T1">>, <<"T1", "T2">>}, a \in {H(11, 0), H(11, 20)}, d \in GapDurations}

\* A call of checkCollision that has not been made yet.
CollisionCases ==
  {[service |-> "collision", call |-> "none", bookings |-> bs, candidate |-> c,
    result |-> Nil] :
     bs \in SeqsUpTo(BookingPool, MaxLedger), c \in CollisionCandidates}

Orderings(n) == {f \in [1..n -> 1..n] : \A i, j \in 1..n : f[i] = f[j] => i = j}

InitPure ==
  /\ bookingStore = <<>>
  /\ locks = <<>>
  /\ idemStore = <<>>
  /\ idemTimers = {}
  /\ req = [r \in Reqs |-> IdleReq]
  /\ obs = [r \in Reqs |-> NoObs]
  /\ createdBy = <<>>
  /\ sinceSet = [k \in Keys |-> NoTime]
  /\ probe \in SelectCases \cup GapCases \cup CollisionCases

Untouched ==
  UNCHANGED <<bookingStore, locks, idemStore, idemTimers, req, obs, createdBy, sinceSet>>

\* selectBest({candidates, partySize})
CallSelectBest ==
  /\ probe.service = "wokibrain"
  /\ probe.call = "none"
  /\ probe' = [probe EXCEPT !.call = "selectBest",
                            !.result = selectBest(probe.candidates, probe.partySize)]
  /\ Untouched

\* selectBest on the list and on the same candidates in another order.
CallSelectBestTwice(perm) ==
  /\ probe.service = "wokibrain"
  /\ probe.call = "none"
  /\ \E other \in {[i \in 1..Len(probe.candidates) |-> probe.candidates[perm[i]]]} :
       probe' = [probe EXCEPT !.call = "selectBestTwice",
                              !.permuted = other,
                              !.result = selectBest(probe.candidates, probe.partySize),
                              !.permutedResult = selectBest(other, probe.partySize)]
  /\ Untouched

\* gapService.findGapsForTable({table, bookings, date, durationMinutes,
\* serviceWindows}); the result is the gaps or the error thrown.
CallFindGapsForTable(table) ==
  /\ probe.service = "gaps"
  /\ probe.call = "none"
  /\ probe' = [probe EXCEPT !.call = "findGapsForTable",
                            !.tables = <<table>>,
                            !.result = findGapsForTable(table, probe.bookings, probe.date,
                                         probe.durationMinutes, probe.serviceWindows)]
  /\ Untouched

\* findComboGaps({tables, bookings, date, durationMinutes, serviceWindows})
CallFindComboGaps ==
  /\ probe.service = "gaps"
  /\ probe.call = "none"
  /\ isValidDuration(probe.durationMinutes)
  /\ probe' = [probe EXCEPT !.call = "findComboGaps",
                            !.tables = Tables,
                            !.result = findComboGaps(Tables, probe.bookings, probe.date,
                                         probe.durationMinutes, probe.serviceWindows)]
  /\ Untouched

\* DiscoverSeatsUseCase.execute without windowStart, windowEnd and limit.
CallDiscoverSeats(tables, partySize) ==
  /\ probe.service = "gaps"
  /\ probe.call = "none"
  /\ isValidDuration(probe.durationMinutes)
  /\ probe' = [probe EXCEPT !.call = "discoverSeats",
                            !.tables = tables,
                            !.partySize = partySize,
                            !.result = DiscoverSeats(tables, probe.bookings, probe.date,
                                         partySize, probe.durationMinutes,
                                         probe.serviceWindows, NoTime, NoTime, DefaultLimit)]
  /\ Untouched

\* checkCollision(candidate, existingBookings, candidate.tableIds)
CallCheckCollision ==
  /\ probe.service = "collision"
  /\ probe.call = "none"
  /\ probe' = [probe EXCEPT !.call = "checkCollision",
                            !.result = checkCollision(probe.candidate, probe.bookings,
                                                      probe.candidate.tableIds)]
  /\ Untouched

NextPure ==
  \/ CallSelectBest
  \/ /\ probe.service = "wokibrain"
     /\ \E perm \in Orderings(Len(probe.candidates)) : CallSelectBestTwice(perm)
  \/ \E i \in 1..Len(Tables) : CallFindGapsForTable(Tables[i])
  \/ CallFindComboGaps
  \/ \E n \in 1..Len(Tables), partySize \in {3, 6} :
       CallDiscoverSeats(SubSeq(Tables, 1, n), partySize)
  \/ CallCheckCollision

SpecPure == InitPure /\ [][NextPure]_vars

(***************************************************************************)
(* Requests of any kind: well-formed or not, for known and unknown         *)
(* restaurants and sectors, for parties the sector can and cannot seat;    *)
(* and the gap service called with any duration.                           *)
(***************************************************************************)
\* A well-formed request for R1/S1 and the requests that differ from it in one
\* field.
BaseInput(key) ==
  [restaurantId |-> "R1", sectorId |-> "S1", partySize |-> 2, durationMinutes |-> 90,
   date |-> 0, windowStart |-> NoTime, windowEnd |-> NoTime, idempotencyKey |-> key]

AnyPartySizes == {-1, 0, 1, 2, 6, 9}

AnyDurations == {15, 90, 100, 195}

AnyRestaurantIds == {"R1", "R9"}

AnySectorIds == {"S1", "S2", "S3", "S9"}

AnyInputs ==
  UNION {{[BaseInput(k) EXCEPT !.partySize = p] : p \in AnyPartySizes}
         \cup {[BaseInput(k) EXCEPT !.durationMinutes = d] : d \in AnyDurations}
         \cup {[BaseInput(k) EXCEPT !.restaurantId = x] : x \in AnyRestaurantIds}
         \cup {[BaseInput(k) EXCEPT !.sectorId = x] : x \in AnySectorIds} : k \in Keys}

AnyInputsOf(r) == {i \in AnyInputs : r = "r1" => i.idempotencyKey = "k1"}

\* Calls of findGapsForTable with any duration, not made yet.
AnyGapCases ==
  {[service |-> "gaps", call |-> "none", bookings |-> bs, date |-> 0,
    durationMinutes |-> d, serviceWindows |-> Nil,
    tables |-> Nil, partySize |-> 0, result |-> Nil] :
     bs \in InitLedgers \cup {<<>>}, d \in AnyDurations \cup {20, 30, 180}}

\* A ledger in which both tables are taken until 23:00.
FullLedger ==
  << [id |-> 1, restaurantId |-> "R1", sectorId |-> "S1", tableIds |-> <<"T1", "T2">>,
      partySize |-> 6, start |-> H(0, 0), end |-> H(23, 0),
      durationMinutes |-> 1380, status |-> "CONFIRMED"] >>

InitAny ==
  \/ Init
  \/ /\ bookingStore = FullLedger
     /\ locks = <<>>
     /\ idemStore = <<>>
     /\ idemTimers = {}
     /\ req = [r \in Reqs |-> IdleReq]
     /\ obs = [r \in Reqs |-> NoObs]
     /\ createdBy = <<"none">>
     /\ sinceSet = [k \in Keys |-> NoTime]
     /\ probe = Nil
  \/ /\ bookingStore = <<>>
     /\ locks = <<>>
     /\ idemStore = <<>>
     /\ idemTimers = {}
     /\ req = [r \in Reqs |-> IdleReq]
     /\ obs = [r \in Reqs |-> NoObs]
     /\ createdBy = <<>>
     /\ sinceSet = [k \in Keys |-> NoTime]
     /\ probe \in AnyGapCases

NextAny ==
  \/ /\ probe = Nil
     /\ \E r \in Reqs : \E input \in AnyInputsOf(r) : Start(r, input)
  \/ \E r \in Reqs : Step(r)
  \/ Clock
  \/ \E t \in idemTimers : StaleIdemTimerFire(t)
  \/ /\ probe # Nil
     /\ \E i \in 1..Len(Tables) : CallFindGapsForTable(Tables[i])

SpecAny == InitAny /\ [][NextAny]_vars

\* A ledger of up to MaxLedger CONFIRMED bookings of T1 or T2 on day 0, on
\* or off the grid, overlapping or nested (the ledger is an input), and no
\* call running.
InitAlone ==
  /\ bookingStore \in
       SeqsUpTo({[id |-> 0, restaurantId |-> "R1", sectorId |-> "S1",
                  tableIds |-> <<t>>, partySize |-> 2, start |-> i[1], end |-> i[2],
                  durationMinutes |-> (i[2] - i[1]) \div MsPerMinute,
                  status |-> "CONFIRMED"] :
                   t \in {"T1", "T2"},
                   i \in {x \in {H(0, 0), H(0, 5) + 30000, H(10, 0), H(12, 0)}
                                \X {H(0, 5) + 30000, H(10, 0), H(12, 0)} :
                            x[1] < x[2]}}, MaxLedger)
  /\ locks = <<>>
  /\ idemStore = <<>>
  /\ idemTimers = {}
  /\ req = [r \in Reqs |-> IdleReq]
  /\ obs = [r \in Reqs |-> NoObs]
  /\ createdBy = [i \in 1..Len(bookingStore) |-> "none"]
  /\ sinceSet = [k \in Keys |-> NoTime]
  /\ probe = Nil

\* A call and then its retry, each running alone: the second starts when the
\* first has ended; no time passes.
NextAlone ==
  \/ \E r \in Reqs : \E input \in InputsOf(r) :
       (\A q \in Reqs : ~Running(q)) /\ Start(r, input)
  \/ \E r \in Reqs : Step(r)

SpecAlone == InitAlone /\ [][NextAlone]_vars

\* The idempotency store on its own, empty: probe holds, per key, the booking
\* of the latest set, and the latest get.
InitStore ==
  /\ bookingStore = <<>>
  /\ locks = <<>>
  /\ idemStore = <<>>
  /\ idemTimers = {}
  /\ req = [r \in Reqs |-> IdleReq]
  /\ obs = [r \in Reqs |-> NoObs]
  /\ createdBy = <<>>
  /\ sinceSet = [k \in Keys |-> NoTime]
  /\ probe = [service |-> "store", last |-> [k \in Keys |-> Nil], got |-> Nil]

\* set(key, booking, 60000)
StoreSet(key, booking) ==
  /\ LET put == IdemSet(idemStore, idemTimers, key, booking, IdemTTL)
     IN  /\ idemStore' = put.store
         /\ idemTimers' = put.timers
  /\ sinceSet' = [sinceSet EXCEPT ![key] = 0]
  /\ probe' = [probe EXCEPT !.last[key] = booking]
  /\ UNCHANGED <<bookingStore, locks, req, obs, createdBy>>

\* get(key): what it returns, the booking of the latest set of the key and
\* the time since that set.
StoreGet(key) ==
  /\ LET got == IdemGet(idemStore, key)
     IN  /\ idemStore' = got.store
         /\ probe' = [probe EXCEPT !.got = [key |-> key, booking |-> got.booking,
                                            latest |-> probe.last[key],
                                            elapsed |-> sinceSet[key]]]
  /\ UNCHANGED <<bookingStore, locks, idemTimers, req, obs, createdBy, sinceSet>>

\* Calls of set (either of two bookings under k1) and get in any order,
\* time passing in steps of 20 s, and the expiry timers firing when due.
NextStore ==
  \/ \E l \in InitLedgers \cup {FullLedger} : StoreSet("k1", l[1])
  \/ StoreGet("k1")
  \/ Tick(20000)
  \/ \E key \in DOMAIN idemStore : IdemTimerFire(key)
  \/ \E t \in idemTimers : StaleIdemTimerFire(t)

SpecStore == InitStore /\ [][NextStore]_vars

(***************************************************************************)
(* Discovery and the services around it, called as the coordinator (steps  *)
(* 5 and 6 of execute) and the API call them, over a sector of three       *)
(* tables.                                                                 *)
(***************************************************************************)
\* T1(2,4), T2(2,6), T3(2,4) in catalog order.
WideTables ==
  << [id |-> "T1", sectorId |-> "S1", minSize |-> 2, maxSize |-> 4],
     [id |-> "T2", sectorId |-> "S1", minSize |-> 2, maxSize |-> 6],
     [id |-> "T3", sectorId |-> "S1", minSize |-> 2, maxSize |-> 4] >>

\* The non-empty sub-lists of a list of three tables, in list order.
SubLists(tables) ==
  {<<tables[1]>>, <<tables[2]>>, <<tables[3]>>, <<tables[1], tables[2]>>,
   <<tables[2], tables[3]>>, <<tables[1], tables[3]>>, tables}

BuilderPartySizes == {3, 5, 7}

\* A call of CandidateBuilder that has not been made yet.
BuilderCases ==
  {[service |-> "builder", call |-> "none", tables |-> ts, gap |-> g,
    partySize |-> p, result |-> Nil] :
     ts \in SubLists(WideTables), g \in SelectGaps, p \in BuilderPartySizes}

\* CONFIRMED bookings of one table of the sector on day 0, on the grid.
WideBookingPool ==
  {[id |-> 0, restaurantId |-> "R1", sectorId |-> "S1", tableIds |-> <<t>>,
    partySize |-> 2, start |-> i[1], end |-> i[2],
    durationMinutes |-> (i[2] - i[1]) \div MsPerMinute, status |-> "CONFIRMED"] :
     t \in {"T1", "T2", "T3"},
     i \in {<<H(10, 0), H(11, 0)>>, <<H(10, 0), H(12, 0)>>, <<H(11, 0), H(12, 0)>>}}

\* undefined, or one window 00:00-10:00.
WideWindowChoices == {Nil, <<[start |-> 0, end |-> 600]>>}

\* limit is not given.
NoLimit == -1

LimitChoices == {NoLimit, 1, 2}

\* A sector of more tables than the default limit, each (2,4).
ManyTableIds == <<"T1", "T2", "T3", "T4", "T5", "T6", "T7", "T8", "T9", "T10", "T11">>

ManyTables ==
  [i \in 1..Len(ManyTableIds) |->
     [id |-> ManyTableIds[i], sectorId |-> "S1", minSize |-> 2, maxSize |-> 4]]

\* A discovery for the sector that has not run yet: the three tables with any
\* ledger, the many tables with none, or two large tables followed by two
\* small ones (T1(2,8), T2(2,8), T3(1,2), T4(2,3)) with none.
DiscoveryCases ==
  {[service |-> "discovery", call |-> "none", tables |-> WideTables, bookings |-> bs,
    date |-> 0, durationMinutes |-> 90, serviceWindows |-> w,
    partySize |-> 0, limit |-> NoLimit, result |-> Nil, domain |-> Nil, best |-> Nil] :
     bs \in SeqsUpTo(WideBookingPool, MaxLedger), w \in WideWindowChoices}
  \cup
  {[service |-> "discovery", call |-> "none", tables |-> ts, bookings |-> <<>>,
    date |-> 0, durationMinutes |-> 90, serviceWindows |-> Nil,
    partySize |-> 0, limit |-> NoLimit, result |-> Nil, domain |-> Nil, best |-> Nil] :
     ts \in {ManyTables,
             <<[id |-> "T1", sectorId |-> "S1", minSize |-> 2, maxSize |-> 8],
               [id |-> "T2", sectorId |-> "S1", minSize |-> 2, maxSize |-> 8],
               [id |-> "T3", sectorId |-> "S1", minSize |-> 1, maxSize |-> 2],
               [id |-> "T4", sectorId |-> "S1", minSize |-> 2, maxSize |-> 3]>>}}

\* Bookings of T1 or T2, CONFIRMED or CANCELLED, on day 0 or on day 1.
DatedBookingPool ==
  {[id |-> 0, restaurantId |-> "R1", sectorId |-> "S1", tableIds |-> <<t>>,
    partySize |-> 2, start |-> day * DayMs + i[1], end |-> day * DayMs + i[2],
    durationMinutes |-> (i[2] - i[1]) \div MsPerMinute, status |-> st] :
     t \in {"T1", "T2"}, day \in {0, 1},
     i \in {<<H(10, 0), H(11, 0)>>, <<H(11, 0), H(12, 0)>>},
     st \in {"CONFIRMED", "CANCELLED"}}

\* Calls of findGapsForTable for day 0 that have not been made yet.
DatedGapCases ==
  {[service |-> "gaps", call |-> "none", bookings |-> bs, date |-> 0,
    durationMinutes |-> 30, serviceWindows |-> Nil,
    tables |-> Nil, partySize |-> 0, result |-> Nil] :
     bs \in SeqsUpTo(DatedBookingPool, MaxLedger)}

\* Calls of checkCollision that have not been made yet.
DatedCollisionCases ==
  {[service |-> "collision", call |-> "none", bookings |-> bs, candidate |-> c,
    result |-> Nil] :
     bs \in SeqsUpTo(DatedBookingPool, MaxLedger), c \in CollisionCandidates}

\* What step 7 of execute passes to generateLockKey.  Ids are as the entities
\* accept them: any string, among them ones that hold the characters the key
\* is joined with.
KeySelections ==
  [restaurantId : {"R1", "R1|S1"}, sectorId : {"S1", "S2", "S1|S2"},
   tableIds : {<<"T1">>, <<"T2">>, <<"T1", "T2">>, <<"T2", "T1">>, <<"T1+T2">>},
   start : {H(20, 0), H(21, 0)}]

\* Two requests that have selected a candidate and not yet computed their keys.
LockKeyCases ==
  {[service |-> "lockkey", call |-> "none", first |-> a, second |-> b, result |-> Nil] :
     a \in KeySelections, b \in KeySelections}

\* maxSize of the combination minus people.
calculateMinimumWaste(tables, people) ==
  SumSeq([i \in 1..Len(tables) |-> tables[i].maxSize]) - people

\* The combinations tables[start], tables[start+1], ..., tables[next] for each
\* next after start whose summed maxSize reaches totalPeople, in the order
\* they are stored.
findCombinationsStartingWithTable(tables, startTableIndex, totalPeople) ==
  Flatten([n \in 1..(Len(tables) - startTableIndex) |->
             LET combinationTables ==
                   SubSeq(tables, startTableIndex, startTableIndex + n)
                 totalMaxSize ==
                   SumSeq([i \in 1..Len(combinationTables) |->
                             combinationTables[i].maxSize])
             IN  IF totalPeople <= totalMaxSize
                 THEN <<[tableIds |-> [i \in 1..Len(combinationTables) |->
                                         combinationTables[i].id],
                         waste |-> calculateMinimumWaste(combinationTables,
                                                         totalPeople)]>>
                 ELSE <<>>])

\* The first of the stored combinations with the least waste (a stable sort
\* by waste); no combination gives tableIds [] and waste Infinity.
selectBestCombination(validCombinations) ==
  IF Len(validCombinations) = 0 THEN [tableIds |-> <<>>, waste |-> "Infinity"]
  ELSE validCombinations[
         CHOOSE i \in 1..Len(validCombinations) :
           /\ \A j \in 1..Len(validCombinations) :
                validCombinations[i].waste <= validCombinations[j].waste
           /\ \A j \in 1..(i - 1) :
                validCombinations[j].waste > validCombinations[i].waste]

\* TableCombinationService.execute of a service constructed with tables.
TableCombinationService(tables, people) ==
  selectBestCombination(
    Flatten([tableIndex \in 1..Len(tables) |->
               IF people >= tables[tableIndex].minSize
               THEN IF people - tables[tableIndex].maxSize <= 0
                    THEN <<[tableIds |-> <<tables[tableIndex].id>>,
                            waste |-> calculateMinimumWaste(<<tables[tableIndex]>>,
                                                            people)]>>
                    ELSE findCombinationsStartingWithTable(tables, tableIndex, people)
               ELSE <<>>]))

\* Services over one to three tables of sizes (1,1), (2,2), (2,4) or (4,4),
\* asked for 1 to 9 people, not yet executed.
CombinationCases ==
  {[service |-> "combination", call |-> "none",
    tables |-> [i \in 1..Len(sizes) |->
                  [id |-> <<"T1", "T2", "T3">>[i], sectorId |-> "S1",
                   minSize |-> sizes[i][1], maxSize |-> sizes[i][2]]],
    people |-> people, result |-> Nil] :
     sizes \in SeqsUpTo({<<1, 1>>, <<2, 2>>, <<2, 4>>, <<4, 4>>}, 3) \ {<<>>},
     people \in 1..9}

\* Calls of findComboGaps on tables of the sector, in list order and in
\* another order, that have not been made yet; the ledger holds up to
\* MaxLedger CONFIRMED bookings of T1, T2 or T3, on or off the grid.
ComboOrderCases ==
  {[service |-> "comboOrder", call |-> "none", bookings |-> bs, date |-> 0,
    durationMinutes |-> 30, serviceWindows |-> w, tables |-> Nil, reordered |-> Nil,
    result |-> Nil, reorderedResult |-> Nil] :
     bs \in SeqsUpTo({[id |-> 0, restaurantId |-> "R1", sectorId |-> "S1",
                        tableIds |-> <<t>>, partySize |-> 2,
                        start |-> i[1], end |-> i[2],
                        durationMinutes |-> (i[2] - i[1]) \div MsPerMinute,
                        status |-> "CONFIRMED"] :
                         t \in {"T1", "T2", "T3"},
                         i \in {x \in {H(10, 0), H(10, 5) + 30000, H(11, 0)}
                                      \X {H(10, 5) + 30000, H(11, 0), H(12, 0)} :
                                  x[1] < x[2]}}, MaxLedger),
     w \in WideWindowChoices}

\* Instants of day 0 with any minutes, seconds and milliseconds, not yet
\* aligned.
TimeCases ==
  {[service |-> "time", call |-> "none",
    t |-> H(h, m) + sec * 1000 + ms, result |-> Nil] :
     h \in {20, 23}, m \in {0, 7, 14, 15, 16, 29, 30, 45, 46, 59},
     sec \in {0, 30, 59}, ms \in {0, 1, 999}}

InitServices ==
  /\ bookingStore = <<>>
  /\ locks = <<>>
  /\ idemStore = <<>>
  /\ idemTimers = {}
  /\ req = [r \in Reqs |-> IdleReq]
  /\ obs = [r \in Reqs |-> NoObs]
  /\ createdBy = <<>>
  /\ sinceSet = [k \in Keys |-> NoTime]
  /\ probe \in BuilderCases \cup DiscoveryCases \cup DatedGapCases
                \cup DatedCollisionCases \cup LockKeyCases \cup TimeCases
                \cup CombinationCases \cup ComboOrderCases

\* CandidateBuilder.createSingleCandidate for one table, createComboCandidate
\* for several.
CallCandidateBuilder ==
  /\ probe.service = "builder"
  /\ probe.call = "none"
  /\ probe' = [probe EXCEPT
                 !.call = "create",
                 !.result = IF Len(probe.tables) = 1
                            THEN createSingleCandidate(probe.tables[1], probe.gap,
                                                       probe.partySize)
                            ELSE createComboCandidate(probe.tables, probe.gap,
                                                      probe.partySize)]
  /\ Untouched

\* Steps 5 and 6 of execute: DiscoverSeatsUseCase.execute (limit defaults to
\* 10), convertToDomainCandidates on its candidates and selectBest on those.
CallDiscovery(partySize, limit) ==
  /\ probe.service = "discovery"
  /\ probe.call = "none"
  /\ \E found \in {DiscoverSeats(probe.tables, probe.bookings, probe.date, partySize,
                                  probe.durationMinutes, probe.serviceWindows, NoTime,
                                  NoTime, IF limit = NoLimit THEN DefaultLimit ELSE limit)} :
       probe' = [probe EXCEPT
                   !.call = "discover",
                   !.partySize = partySize,
                   !.limit = limit,
                   !.result = found,
                   !.domain = convertToDomainCandidates(found, probe.tables, partySize),
                   !.best = selectBest(convertToDomainCandidates(found, probe.tables,
                                                                 partySize),
                                       partySize)]
  /\ Untouched

\* Step 7 of execute in each of the two requests.
CallGenerateLockKey ==
  /\ probe.service = "lockkey"
  /\ probe.call = "none"
  /\ probe' = [probe EXCEPT
                 !.call = "generateLockKey",
                 !.result = <<generateLockKey(probe.first.restaurantId,
                                              probe.first.sectorId,
                                              probe.first.tableIds, probe.first.start),
                              generateLockKey(probe.second.restaurantId,
                                              probe.second.sectorId,
                                              probe.second.tableIds,
                                              probe.second.start)>>]
  /\ Untouched

\* alignToGrid and alignToNextGrid of the instant, and each applied to its
\* own result.
CallAlign ==
  /\ probe.service = "time"
  /\ probe.call = "none"
  /\ probe' = [probe EXCEPT
                 !.call = "align",
                 !.result = [down |-> alignToGrid(probe.t),
                             up |-> alignToNextGrid(probe.t),
                             downTwice |-> alignToGrid(alignToGrid(probe.t)),
                             upTwice |-> alignToNextGrid(alignToNextGrid(probe.t))]]
  /\ Untouched

\* new TableCombinationService(tables).execute(people)
CallTableCombination ==
  /\ probe.service = "combination"
  /\ probe.call = "none"
  /\ probe' = [probe EXCEPT
                 !.call = "execute",
                 !.result = TableCombinationService(probe.tables, probe.people)]
  /\ Untouched

\* findComboGaps on the tables and on the same tables in the order perm.
CallFindComboGapsReordered(tables, perm) ==
  /\ probe.service = "comboOrder"
  /\ probe.call = "none"
  /\ \E reordered \in {[i \in 1..Len(tables) |-> tables[perm[i]]]} :
       probe' = [probe EXCEPT
                   !.call = "findComboGaps",
                   !.tables = tables,
                   !.reordered = reordered,
                   !.result = findComboGaps(tables, probe.bookings, probe.date,
                                            probe.durationMinutes,
                                            probe.serviceWindows),
                   !.reorderedResult = findComboGaps(reordered, probe.bookings,
                                                     probe.date, probe.durationMinutes,
                                                     probe.serviceWindows)]
  /\ Untouched

NextServices ==
  \/ \E tables \in SubLists(WideTables) : \E perm \in Orderings(Len(tables)) :
       CallFindComboGapsReordered(tables, perm)
  \/ CallAlign
  \/ CallTableCombination
  \/ \E i \in 1..Len(Tables) : CallFindGapsForTable(Tables[i])
  \/ CallCheckCollision
  \/ CallCandidateBuilder
  \/ CallGenerateLockKey
  \/ \E partySize \in BuilderPartySizes, limit \in LimitChoices :
       CallDiscovery(partySize, limit)

SpecServices == InitServices /\ [][NextServices]_vars

(***************************************************************************)
(* Properties                                                              *)
(***************************************************************************)
Done(r) == req[r].pc = "done"
Succeeded(r) == Done(r) /\ req[r].outcome.ok
Failed(r, code) == Done(r) /\ ~req[r].outcome.ok /\ req[r].outcome.error = code

\* The bookings of the ledger that the calls created.
Created == {i \in 1..Len(bookingStore) : createdBy[i] # "none"}

\* C1 (no double allocation): no two CONFIRMED bookings of the ledger share a
\* table id and have overlapping half-open intervals.
C1_NoDoubleAllocation ==
  \A i, j \in 1..Len(bookingStore) :
    ( /\ i < j
      /\ bookingStore[i].status = "CONFIRMED"
      /\ bookingStore[j].status = "CONFIRMED"
      /\ Range(bookingStore[i].tableIds) \cap Range(bookingStore[j].tableIds) # {} )
    => ~( /\ bookingStore[i].start < bookingStore[j].end
          /\ bookingStore[i].end > bookingStore[j].start )

\* C2 (at most one booking per idempotency key): the ledger holds at most one
\* booking created by calls carrying the same key.
C2_OneBookingPerKey ==
  \A k \in Keys : Cardinality({i \in Created : createdBy[i] = k}) <= 1

\* The second call repeats the first, finished and successful, call.
Resubmitted(first, second) ==
  /\ ArrivesBefore(first, second)
  /\ Succeeded(first)
  /\ Done(second)
  /\ req[second].input = req[first].input

SameBooking(a, b) ==
  /\ a.id = b.id
  /\ a.start = b.start
  /\ a.end = b.end
  /\ a.tableIds = b.tableIds

Idempotent(first, second) ==
  /\ req[second].outcome.ok
  /\ SameBooking(req[first].outcome.response, req[second].outcome.response)
  /\ Cardinality(Created) = 1

C4_Scenario4 ==
  \A a, b \in Reqs :
    ( /\ ArrivesBefore(a, b)
      /\ Done(a) /\ Done(b)
      /\ req[a].input.idempotencyKey # req[b].input.idempotencyKey
      /\ [req[a].input EXCEPT !.idempotencyKey = "k"] =
           [req[b].input EXCEPT !.idempotencyKey = "k"]
      /\ obs[a].selected # Nil
      /\ obs[a].selected = obs[b].selected )
    => \/ Succeeded(a) /\ Failed(b, "conflict")
       \/ Succeeded(b) /\ Failed(a, "conflict")
       \/ /\ Succeeded(a) /\ Succeeded(b)
          /\ Range(req[a].outcome.response.tableIds) #
               Range(req[b].outcome.response.tableIds)

\* C5 (single-writer gate): a call that appended to the ledger held the lock
\* of its key (acquired, not released, not expired) at the append, and its
\* re-validation under the lock found no collision.
C5_SingleWriterGate ==
  \A r \in Reqs :
    obs[r].ops.ledgerAppend > 0
    => obs[r].acquired /\ ~obs[r].overlap /\ obs[r].lockAtAppend

\* C6 (lock release on every exit path): a call that acquired its lock has
\* called release once when it returns or throws (success, conflict from a
\* collision, failure of the re-read, the save or the set), and every lock of
\* the table belongs to a call that is still before its release.
C6_LockReleasedOnExit ==
  /\ \A r \in Reqs :
       (obs[r].acquired /\ req[r].pc \in {"awaitRelease", "done"})
       => obs[r].ops.lockRelease = 1
  /\ \A k \in DOMAIN locks :
       req[locks[k].owner].pc \in {"awaitAcquire", "awaitRecheck", "awaitSave",
                                  "awaitIdemSet"}

\* C6's case: a call whose save or set failed under the lock has ended, and
\* no lock is left.
C6_Witness ==
  \E r \in Reqs :
    /\ Failed(r, "unexpected")
    /\ obs[r].acquired
    /\ obs[r].ops.ledgerAppend = 1
    /\ obs[r].ops.lockRelease = 1
    /\ DOMAIN locks = {}

\* C7 (idempotency short-circuit): a valid call that found an unexpired
\* booking under its key made no other call (no catalog or ledger read, no
\* append, no acquire or release, no set) and returns that booking's fields.
C7_ShortCircuit ==
  \A r \in Reqs :
    obs[r].hit # Nil
    => /\ req[r].pc \in {"awaitIdemGet", "done"}
       /\ obs[r].ops = [ZeroOps EXCEPT !.idemGet = 1]
       /\ Done(r) =>
            /\ req[r].outcome.ok
            /\ \A f \in DOMAIN req[r].outcome.response :
                 req[r].outcome.response[f] = obs[r].hit[f]
            /\ \E i \in 1..Len(bookingStore) :
                 SameBooking(bookingStore[i], req[r].outcome.response)

\* C7's case: the hit answers a call whose party size differs from the
\* booking's.
C7_Witness ==
  \E r \in Reqs :
    /\ Done(r)
    /\ obs[r].hit # Nil
    /\ req[r].input.partySize # obs[r].hit.partySize
    /\ req[r].outcome.response.partySize = obs[r].hit.partySize

\* C8 (non-blocking lock): a call that found the key of its candidate held and
\* unexpired did not acquire it, left the holder's entry as it was, goes
\* straight to Conflict, and appends nothing, records no mapping, releases
\* nothing.
C8_NonBlockingLock ==
  \A r \in Reqs :
    obs[r].lockBefore = "held"
    => /\ ~obs[r].acquired
       /\ obs[r].kept
       /\ req[r].pc \in {"awaitAcquire", "done"}
       /\ Done(r) => Failed(r, "conflict")
       /\ obs[r].ops = [ZeroOps EXCEPT !.idemGet = 1, !.catalogRead = 3,
                                       !.ledgerRead = 1, !.lockAcquire = 1]

\* C8's case: a call ended in Conflict on a held key while the holder goes on.
C8_Witness ==
  \E r \in Reqs :
    /\ obs[r].lockBefore = "held"
    /\ Failed(r, "conflict")
    /\ obs[r].holder \in Reqs
    /\ req[obs[r].holder].pc = "awaitRecheck"

\* The call is past its collision check.
Rechecked(r) ==
  /\ obs[r].acquired
  /\ obs[r].ops.ledgerRead = 2
  /\ req[r].pc \in {"awaitRelease", "awaitSave", "awaitIdemSet", "done"}

Conflicting(r) ==
  \/ req[r].pc = "awaitRelease" /\ req[r].pending = Err("conflict")
  \/ Failed(r, "conflict")

\* C9 (re-validation): under the lock the call fails with Conflict exactly
\* when the re-read holds a CONFIRMED booking that shares a table with the
\* candidate and overlaps it; then it appended nothing, recorded no mapping
\* and tried no other candidate.
C9_Revalidation ==
  \A r \in Reqs :
    Rechecked(r)
    => /\ Conflicting(r) <=> obs[r].overlap
       /\ obs[r].overlap =>
            /\ obs[r].ops.ledgerAppend = 0
            /\ obs[r].ops.idemSet = 0
            /\ obs[r].ops.lockAcquire = 1
            /\ obs[r].ops.ledgerRead = 2

\* C9's case: a call ended in Conflict from a collision found under the lock.
C9_Witness ==
  \E r \in Reqs : Rechecked(r) /\ obs[r].overlap /\ Failed(r, "conflict")

\* C10 (lock TTL expiry): an acquire that finds the key free, or held for
\* longer than its TTL without a release, returns true.
C10_LockTTLExpiry ==
  \A r \in Reqs :
    (obs[r].ops.lockAcquire = 1 /\ obs[r].lockBefore # "held") => obs[r].acquired

\* C10's case: the key was taken from a holder that had not released it.
C10_Witness ==
  \E r \in Reqs :
    /\ obs[r].lockBefore = "expired"
    /\ obs[r].acquired
    /\ obs[r].holder \in Reqs
    /\ req[obs[r].holder].pc \in {"awaitAcquire", "awaitRecheck", "awaitSave",
                                 "awaitIdemSet"}
    /\ req[r].pc = "awaitAcquire"

\* C11 (idempotency cache expiry): a get made more than the TTL after the
\* last set of its key (expiresAt < now), or for a key never set, returns no
\* booking.
C11_CacheExpiry ==
  \A r \in Reqs :
    (obs[r].ops.idemGet = 1 /\ (obs[r].elapsed = NoTime \/ obs[r].elapsed > IdemTTL))
    => obs[r].hit = Nil

\* C11's case: a get of a key that was set more than the TTL ago misses.
C11_Witness ==
  \E r \in Reqs :
    /\ req[r].pc = "awaitIdemGet"
    /\ obs[r].elapsed > IdemTTL
    /\ obs[r].hit = Nil
    /\ \E i \in Created : createdBy[i] = req[r].input.idempotencyKey

Selecting == probe.service = "wokibrain" /\ probe.call # "none"

Fits(c, partySize) == c.capacity.minSize <= partySize /\ partySize <= c.capacity.maxSize

\* C12 (selection determinism): selectBest returns the same candidate for the
\* list and for every permutation of it.
C12_SelectionDeterminism ==
  (Selecting /\ probe.call = "selectBestTwice")
  => probe.result.candidate = probe.permutedResult.candidate

\* The selection key: kind (single first), table count, waste, gap start.
KindRank(c) == IF c.kind = "single" THEN 0 ELSE 1

KeyLess(a, b) ==
  \/ KindRank(a) < KindRank(b)
  \/ /\ KindRank(a) = KindRank(b)
     /\ \/ Len(a.tableIds) < Len(b.tableIds)
        \/ /\ Len(a.tableIds) = Len(b.tableIds)
           /\ \/ a.waste < b.waste
              \/ a.waste = b.waste /\ a.gap.start < b.gap.start

ValidOf(cs, partySize) == {c \in Range(cs) : Fits(c, partySize)}

\* C13 (selection priority): when a candidate is valid, selectBest returns a
\* valid candidate of the list and no valid candidate of the list is strictly
\* smaller under the key.
C13_SelectionPriority ==
  (Selecting /\ ValidOf(probe.candidates, probe.partySize) # {})
  => /\ probe.result.hasCapacity
     /\ probe.result.candidate \in ValidOf(probe.candidates, probe.partySize)
     /\ \A c \in ValidOf(probe.candidates, probe.partySize) :
          ~KeyLess(c, probe.result.candidate)

\* C13's case: a single is chosen although a valid combo has lower waste.
C13_Witness ==
  /\ Selecting
  /\ probe.result.candidate # Nil
  /\ probe.result.candidate.kind = "single"
  /\ \E c \in ValidOf(probe.candidates, probe.partySize) :
       c.kind = "combo" /\ c.waste < probe.result.candidate.waste

Discovered == probe.service = "gaps" /\ probe.call = "discoverSeats"

\* The summed capacity of the tables of an API candidate.
TableOf(id) == CHOOSE t \in Range(Tables) : t.id = id

MinSizeOf(tableIds) == SumSeq([i \in 1..Len(tableIds) |-> TableOf(tableIds[i]).minSize])

MaxSizeOf(tableIds) == SumSeq([i \in 1..Len(tableIds) |-> TableOf(tableIds[i]).maxSize])

\* C14 (capacity filtering): a candidate returned by selectBest or by discovery
\* has capacity.minSize <= partySize <= capacity.maxSize (sums over the tables
\* of a combo); with no such candidate in the input selectBest returns
\* candidate null and hasCapacity false.
C14_CapacityFiltering ==
  /\ Selecting =>
       /\ probe.result.candidate # Nil => Fits(probe.result.candidate, probe.partySize)
       /\ ValidOf(probe.candidates, probe.partySize) = {}
            => probe.result = [candidate |-> Nil, hasCapacity |-> FALSE]
  /\ Discovered =>
       \A i \in 1..Len(probe.result) :
         /\ MinSizeOf(probe.result[i].tableIds) <= probe.partySize
         /\ probe.partySize <= MaxSizeOf(probe.result[i].tableIds)

\* C14's case: candidates were passed, none fits the party, nothing is returned.
C14_Witness ==
  /\ Selecting
  /\ Len(probe.candidates) > 0
  /\ ValidOf(probe.candidates, probe.partySize) = {}
  /\ probe.result.candidate = Nil
  /\ ~probe.result.hasCapacity

GapsOfTable == probe.service = "gaps" /\ probe.call = "findGapsForTable"

CollisionChecked == probe.service = "collision" /\ probe.call = "checkCollision"

\* The CONFIRMED bookings of the probe's ledger that use one of the tables.
ConfirmedOn(tableIds) ==
  {b \in Range(probe.bookings) :
     b.status = "CONFIRMED" /\ Range(b.tableIds) \cap Range(tableIds) # {}}

\* C15 (half-open boundary): re-validation reports a collision only for a
\* CONFIRMED booking of a shared table that overlaps the candidate strictly, so
\* a booking ending at the candidate's start T is none; and for two CONFIRMED
\* bookings of a table, the first ending at T and the second starting at T,
\* findGapsForTable returns no gap lying between them.
C15_HalfOpenBoundary ==
  /\ CollisionChecked =>
       (probe.result =>
          \E b \in ConfirmedOn(probe.candidate.tableIds) :
            probe.candidate.gap.start < b.end /\ probe.candidate.gap.end > b.start)
  /\ GapsOfTable =>
       \A b1, b2 \in ConfirmedOn(<<probe.tables[1].id>>) :
         b1.end = b2.start =>
           ~\E i \in 1..Len(probe.result) :
              /\ probe.result[i].start >= alignToGrid(b1.end)
              /\ probe.result[i].end <= b2.start

\* C15's case: a CONFIRMED booking of the candidate's table ends exactly where
\* the candidate starts and re-validation finds no collision.
C15_Witness ==
  /\ CollisionChecked
  /\ ~probe.result
  /\ \E b \in ConfirmedOn(probe.candidate.tableIds) : b.end = probe.candidate.gap.start

\* C16 (gaps are free): a gap returned by findGapsForTable for a table and date
\* overlaps (half-open) no CONFIRMED booking of that table starting on that date.
C16_GapsAreFree ==
  GapsOfTable =>
    \A i \in 1..Len(probe.result) :
      \A b \in ConfirmedOn(<<probe.tables[1].id>>) :
        DateOf(b.start) = probe.date
          => ~(probe.result[i].start < b.end /\ b.start < probe.result[i].end)

GapsOfCombo == probe.service = "gaps" /\ probe.call = "findComboGaps"

OnGrid(t) == t % (GridMinutes * MsPerMinute) = 0

\* C17 (grid alignment): every gap returned by findGapsForTable and by
\* findComboGaps starts and ends on a minute in {0, 15, 30, 45} with zero
\* seconds and milliseconds.
C17_GridAlignment ==
  (GapsOfTable \/ GapsOfCombo) =>
    \A i \in 1..Len(probe.result) :
      OnGrid(probe.result[i].start) /\ OnGrid(probe.result[i].end)

\* C17's case: a CONFIRMED booking of the table ends off the grid and a
\* returned gap starts at the grid instant below that end.
C17_Witness ==
  /\ GapsOfTable
  /\ \E b \in ConfirmedOn(<<probe.tables[1].id>>) :
       /\ ~OnGrid(b.end)
       /\ \E i \in 1..Len(probe.result) : probe.result[i].start = alignToGrid(b.end)

WindowsSupplied == probe.serviceWindows # Nil /\ Len(probe.serviceWindows) > 0

InWindow(g, w) ==
  /\ g.start >= timeStringToDate(probe.date, w.start)
  /\ g.end <= timeStringToDate(probe.date, w.end)

TouchesWindow(g, w) ==
  /\ g.start < timeStringToDate(probe.date, w.end)
  /\ timeStringToDate(probe.date, w.start) < g.end

\* The gaps of the probe's table when no service window is supplied.
UnfilteredGaps ==
  findGapsForTable(probe.tables[1], probe.bookings, probe.date, probe.durationMinutes, Nil)

Scenario1 ==
  /\ Discovered
  /\ Len(probe.tables) = 1
  /\ probe.tables[1].minSize = 2 /\ probe.tables[1].maxSize = 4
  /\ Len(probe.bookings) = 0
  /\ probe.partySize = 3
  /\ probe.durationMinutes = 90

\* C19 (scenario 1): discovery returns exactly one candidate, a single for the
\* table, spanning the whole day without a service window and spanning the
\* window when one is supplied.
C19_Scenario1 ==
  Scenario1 =>
    /\ Len(probe.result) = 1
    /\ probe.result[1].kind = "single"
    /\ probe.result[1].tableIds = <<probe.tables[1].id>>
    /\ probe.serviceWindows = Nil =>
         /\ probe.result[1].start = getDayStart(probe.date)
         /\ probe.result[1].end = getDayEnd(probe.date)
    /\ (probe.serviceWindows # Nil /\ Len(probe.serviceWindows) = 1) =>
         /\ probe.result[1].start = timeStringToDate(probe.date, probe.serviceWindows[1].start)
         /\ probe.result[1].end = timeStringToDate(probe.date, probe.serviceWindows[1].end)

\* The gaps findGapsForTable returns for a member table of the probe's call.
MemberGaps(table) ==
  findGapsForTable(table, probe.bookings, probe.date, probe.durationMinutes, probe.serviceWindows)

\* C20 (combo gaps are simultaneously free): every gap returned by findComboGaps
\* for two tables is at least the required duration long and lies inside some
\* gap that findGapsForTable returns for each member table.
C20_ComboGapsFree ==
  GapsOfCombo =>
    \A i \in 1..Len(probe.result) :
      /\ probe.result[i].end - probe.result[i].start >= probe.durationMinutes * MsPerMinute
      /\ \A t \in Range(probe.tables) :
           \E h \in Range(MemberGaps(t)) :
             h.start <= probe.result[i].start /\ probe.result[i].end <= h.end

Built == probe.service = "builder" /\ probe.call = "create"

Converted == probe.service = "discovery" /\ probe.call = "discover"

\* The tables of the probe that a candidate names.
TablesOf(tableIds) == {t \in Range(probe.tables) : t.id \in Range(tableIds)}

SumOver(S, F(_)) == SumSeq([i \in 1..Cardinality(S) |->
                              F((CHOOSE f \in [1..Cardinality(S) -> S] :
                                   \A a, b \in 1..Cardinality(S) : f[a] = f[b] => a = b)[i])])

SimpleSum(c, partySize) ==
  /\ c.capacity.minSize = SumOver(TablesOf(c.tableIds), LAMBDA t : t.minSize)
  /\ c.capacity.maxSize = SumOver(TablesOf(c.tableIds), LAMBDA t : t.maxSize)
  /\ c.waste = c.capacity.maxSize - partySize

\* C21 (simple-sum capacity): a candidate's capacity is the sum of its tables'
\* minSize and of their maxSize and its waste is capacity.maxSize - partySize,
\* when CandidateBuilder builds it and when the coordinator rebuilds it from
\* the discovery output.
C21_SimpleSumCapacity ==
  /\ Built => SimpleSum(probe.result, probe.partySize)
  /\ Converted =>
       \A i \in 1..Len(probe.domain) : SimpleSum(probe.domain[i], probe.partySize)

\* C21's case: a combo of tables of different sizes was built.
C21_Witness ==
  /\ Built
  /\ probe.result.kind = "combo"
  /\ \E a, b \in TablesOf(probe.result.tableIds) : a.maxSize # b.maxSize
  /\ probe.result.capacity.maxSize > 6

\* The limit in force: 10 when none is given.
LimitOf == IF probe.limit = NoLimit THEN DefaultLimit ELSE probe.limit

\* Every candidate discovery finds for the probe, before filtering and sorting.
Found ==
  findSingleTableCandidates(probe.tables, probe.bookings, probe.date, probe.partySize,
                            probe.durationMinutes, probe.serviceWindows, NoTime, NoTime)
  \o findComboCandidates(probe.tables, probe.bookings, probe.date, probe.partySize,
                         probe.durationMinutes, probe.serviceWindows, NoTime, NoTime)

ValidFound == ValidOf(Found, probe.partySize)

\* C22 (discovery output order and limit): the response holds
\* min(limit, number of valid candidates) candidates (limit is 10 when not
\* given), each a valid candidate, in ascending order of the selection key,
\* and no valid candidate left out is strictly smaller than one returned.
C22_OrderAndLimit ==
  Converted =>
    /\ Len(probe.result) <= LimitOf
    /\ Len(probe.result) = Min2(LimitOf, Cardinality(ValidFound))
    /\ Range(probe.domain) \subseteq ValidFound
    /\ \A i, j \in 1..Len(probe.domain) :
         i < j => ~KeyLess(probe.domain[j], probe.domain[i])
    /\ \A c \in ValidFound \ Range(probe.domain) :
         \A i \in 1..Len(probe.domain) : ~KeyLess(c, probe.domain[i])

\* C22's case: no limit is given and more than 10 candidates are valid; the
\* response holds 10.
C22_Witness ==
  /\ Converted
  /\ probe.limit = NoLimit
  /\ Cardinality(ValidFound) > DefaultLimit
  /\ Len(probe.result) = DefaultLimit

\* A request whose party size is not a positive integer or whose duration is
\* not a multiple of 15 within [30, 180].
InvalidRequest(input) ==
  \/ input.partySize \notin Nat \ {0}
  \/ input.durationMinutes % 15 # 0
  \/ input.durationMinutes < 30
  \/ input.durationMinutes > 180

\* C23 (input validation first): a request with an invalid party size or
\* duration fails with invalid_input having made no idempotency lookup nor any
\* other operation, and the step in which it is rejected leaves the ledger,
\* the lock table and the idempotency cache as they were; findGapsForTable
\* called with an invalid duration throws the invalid-duration error.
C23_ValidationFirst ==
  /\ [](/\ \A r \in Reqs :
            (req[r].input # Nil /\ InvalidRequest(req[r].input))
            => Failed(r, "invalid_input") /\ obs[r].ops = ZeroOps
        /\ (probe # Nil /\ GapsOfTable /\ InvalidRequest([partySize |-> 1,
                                           durationMinutes |-> probe.durationMinutes]))
            => probe.result = Thrown("Invalid duration"))
  /\ [][\A r \in Reqs :
          (req[r].pc = "idle" /\ req'[r].pc # "idle" /\ InvalidRequest(req'[r].input))
          => UNCHANGED <<bookingStore, locks, idemStore, idemTimers>>]_vars

\* C23's case: a request with an invalid duration is rejected while a booking
\* is cached, unexpired, under its idempotency key.
C23_Witness ==
  \E r \in Reqs :
    /\ Failed(r, "invalid_input")
    /\ ~isValidDuration(req[r].input.durationMinutes)
    /\ req[r].input.idempotencyKey \in DOMAIN idemStore
    /\ idemStore[req[r].input.idempotencyKey].age <= idemStore[req[r].input.idempotencyKey].ttl

\* The restaurant or the sector is missing, the sector belongs to another
\* restaurant, or the sector has no tables.
CatalogMissing(input) ==
  \/ ~\E x \in Restaurants : x.id = input.restaurantId
  \/ ~\E x \in Sectors : x.id = input.sectorId /\ x.restaurantId = input.restaurantId
  \/ ~\E i \in 1..Len(Tables) : Tables[i].sectorId = input.sectorId

NoLedgerLockCacheWrite(r) ==
  /\ obs[r].ops.ledgerRead = 0
  /\ obs[r].ops.ledgerAppend = 0
  /\ obs[r].ops.lockAcquire = 0
  /\ obs[r].ops.idemSet = 0

\* C24 as stated (not_found whenever the catalog lookup must fail): every
\* finished request for a missing restaurant or sector, a sector of another
\* restaurant or a sector without tables failed with not_found.
C24_NotFoundAlways ==
  \A r \in Reqs :
    (Done(r) /\ CatalogMissing(req[r].input)) => Failed(r, "not_found")

\* C24 (not found): a well-formed request with no booking cached under its key,
\* for a missing restaurant or sector, a sector of another restaurant or a
\* sector without tables, fails with not_found; and no request of that kind
\* reads or appends to the ledger, acquires a lock or writes the cache.
C24_NotFound ==
  \A r \in Reqs :
    (req[r].input # Nil /\ CatalogMissing(req[r].input)) =>
      /\ NoLedgerLockCacheWrite(r)
      /\ (Done(r) /\ ~InvalidRequest(req[r].input) /\ obs[r].hit = Nil)
           => Failed(r, "not_found")

\* C24's case: the sector exists in the restaurant but has no tables, and the
\* request failed with not_found after its three catalog reads.
C24_Witness ==
  \E r \in Reqs :
    /\ Failed(r, "not_found")
    /\ \E x \in Sectors : x.id = req[r].input.sectorId
                          /\ x.restaurantId = req[r].input.restaurantId
    /\ obs[r].ops.catalogRead = 3

\* No run of consecutive tables of the sector has a capacity range holding the
\* party.
CannotSeat(partySize) ==
  \A i \in 1..Len(Tables) : \A j \in i..Len(Tables) :
    ~(/\ SumSeq([k \in 1..(j - i + 1) |-> Tables[i + k - 1].minSize]) <= partySize
      /\ partySize <= SumSeq([k \in 1..(j - i + 1) |-> Tables[i + k - 1].maxSize]))

\* A CONFIRMED booking holds every table from the start of the day until less
\* than the duration before its end.
NoGapFor(durationMinutes) ==
  \E i \in 1..Len(bookingStore) :
    /\ bookingStore[i].status = "CONFIRMED"
    /\ \A t \in 1..Len(Tables) : Tables[t].id \in Range(bookingStore[i].tableIds)
    /\ bookingStore[i].start <= 0
    /\ DayMs - bookingStore[i].end < durationMinutes * MsPerMinute

\* C25 (no capacity): a well-formed request for a known sector, with no booking
\* cached under its key, ends with no_capacity when no table or combo fits the
\* party or no gap is long enough; a request that ends with no_capacity has
\* attempted no lock acquire, no ledger append and no cache write, and the step
\* in which it fails leaves the ledger, the lock table and the cache unchanged.
C25_NoCapacity ==
  /\ [](\A r \in Reqs :
          /\ (/\ Done(r)
              /\ ~InvalidRequest(req[r].input)
              /\ ~CatalogMissing(req[r].input)
              /\ obs[r].hit = Nil
              /\ (CannotSeat(req[r].input.partySize)
                  \/ NoGapFor(req[r].input.durationMinutes)))
             => Failed(r, "no_capacity")
          /\ Failed(r, "no_capacity") =>
               /\ obs[r].ops.lockAcquire = 0
               /\ obs[r].ops.ledgerAppend = 0
               /\ obs[r].ops.idemSet = 0)
  /\ [][\A r \in Reqs :
          (req[r].pc # "done" /\ req'[r].pc = "done"
           /\ req'[r].outcome.error = "no_capacity")
          => UNCHANGED <<bookingStore, locks, idemStore, idemTimers>>]_vars

\* C25's case: the party fits a table but no gap of the day is long enough, and
\* the request ended with no_capacity.
C25_Witness ==
  \E r \in Reqs :
    /\ Failed(r, "no_capacity")
    /\ ~CannotSeat(req[r].input.partySize)
    /\ NoGapFor(req[r].input.durationMinutes)

\* The bookings of the probe's ledger that are CONFIRMED and use one of the
\* tables, in ledger order.
ConfirmedOnly(tableIds) ==
  Filter(probe.bookings, LAMBDA b :
    b.status = "CONFIRMED" /\ Range(b.tableIds) \cap Range(tableIds) # {})

\* Those of them that start on the probe's date.
ConfirmedThatDay(tableIds) ==
  Filter(ConfirmedOnly(tableIds), LAMBDA b : DateOf(b.start) = probe.date)

\* C26 (only CONFIRMED bookings of the table on the date constrain): the gaps
\* of a table are those found from its CONFIRMED bookings starting on the date
\* alone, and the collision check gives the result it gives on the CONFIRMED
\* bookings sharing a table with the candidate alone.
C26_OnlyConfirmedConstrain ==
  /\ GapsOfTable =>
       probe.result =
         findGapsForTable(probe.tables[1], ConfirmedThatDay(<<probe.tables[1].id>>),
                          probe.date, probe.durationMinutes, probe.serviceWindows)
  /\ CollisionChecked =>
       probe.result =
         checkCollision(probe.candidate, ConfirmedOnly(probe.candidate.tableIds),
                        probe.candidate.tableIds)

\* C26's case: the ledger holds a CANCELLED booking of the table on the date
\* and a CONFIRMED booking of the table on another date, and the whole day is
\* returned as one gap.
C26_Witness ==
  /\ GapsOfTable
  /\ \E b \in Range(probe.bookings) :
       /\ b.status = "CANCELLED"
       /\ probe.tables[1].id \in Range(b.tableIds)
       /\ DateOf(b.start) = probe.date
  /\ \E b \in Range(probe.bookings) :
       /\ b.status = "CONFIRMED"
       /\ probe.tables[1].id \in Range(b.tableIds)
       /\ DateOf(b.start) # probe.date
  /\ probe.result = <<createGapAligned(getDayStart(probe.date), getDayEnd(probe.date))>>
KeysComputed == probe # Nil /\ probe.service = "lockkey" /\ probe.call = "generateLockKey"

SameAllocation(a, b) ==
  /\ a.restaurantId = b.restaurantId
  /\ a.sectorId = b.sectorId
  /\ Range(a.tableIds) = Range(b.tableIds)
  /\ a.start = b.start

\* C27: two requests compute the same lock key if and only if they have the
\* same restaurant id, sector id, set of selected table ids and selected
\* start instant.
C27_LockKeyIdentity ==
  KeysComputed =>
    ((probe.result[1] = probe.result[2]) <=> SameAllocation(probe.first, probe.second))

\* Two requests with the same restaurant, sector and start, one selecting
\* the tables T1 and T2 and the other the one table named "T1+T2", hold the
\* same key.
C27_CollidingKeys ==
  /\ KeysComputed
  /\ probe.first.tableIds = <<"T1", "T2">>
  /\ probe.second.tableIds = <<"T1+T2">>
  /\ probe.first.restaurantId = probe.second.restaurantId
  /\ probe.first.sectorId = probe.second.sectorId
  /\ probe.first.start = probe.second.start
  /\ probe.result[1] = probe.result[2]

\* Among ids that hold neither '|' nor '+', the keys are equal exactly when
\* the allocations are.
PlainIds == {"R1", "S1", "S2", "T1", "T2"}

PlainSelection(a) ==
  /\ a.restaurantId \in PlainIds
  /\ a.sectorId \in PlainIds
  /\ Range(a.tableIds) \subseteq PlainIds

C27_PlainIdsIdentity ==
  (KeysComputed /\ PlainSelection(probe.first) /\ PlainSelection(probe.second)) =>
    ((probe.result[1] = probe.result[2]) <=> SameAllocation(probe.first, probe.second))

IdsOf(tables) == [i \in 1..Len(tables) |-> tables[i].id]

\* The windows of k consecutive tables of the probe, k in 2..N.
Windows ==
  {SubSeq(probe.tables, i, i + k - 1) :
     <<i, k>> \in {w \in (1..Len(probe.tables)) \X (2..Len(probe.tables)) :
                    w[1] + w[2] - 1 <= Len(probe.tables)}}

SeatsParty(window) ==
  /\ probe.partySize >= SumSeq([i \in 1..Len(window) |-> window[i].minSize])
  /\ probe.partySize <= SumSeq([i \in 1..Len(window) |-> window[i].maxSize])

Returned(tableIds) == \E i \in 1..Len(probe.result) : probe.result[i].tableIds = tableIds

\* C28 (contiguous combos only): every combo candidate of the response names
\* tables at consecutive positions of the input list, and when the response
\* is not cut by the limit every gap of every window of k consecutive tables
\* (k in 2..N) whose summed capacity range contains the party size is in it;
\* a non-adjacent pair is never returned.
C28_ContiguousCombos ==
  Converted =>
    /\ \A i \in 1..Len(probe.result) :
         Len(probe.result[i].tableIds) >= 2 =>
           /\ probe.result[i].kind = "combo"
           /\ \E w \in Windows : probe.result[i].tableIds = IdsOf(w)
    /\ Len(probe.result) < LimitOf =>
         \A w \in {x \in Windows : SeatsParty(x)} :
           \E gaps \in {findComboGaps(w, probe.bookings, probe.date,
                                       probe.durationMinutes, probe.serviceWindows)} :
             \A g \in 1..Len(gaps) :
               \E i \in 1..Len(probe.result) :
                 /\ probe.result[i].tableIds = IdsOf(w)
                 /\ probe.result[i].start = gaps[g].start
                 /\ probe.result[i].end = gaps[g].end

\* C28's case: a party of 7 with T1, T2, T3 all free; T1+T3 (4..8) would
\* waste 1 seat, yet the response holds T1+T2 and T2+T3 (waste 3) and
\* T1+T2+T3 and no T1+T3.
C28_Witness ==
  /\ Converted
  /\ probe.tables = WideTables
  /\ probe.bookings = <<>>
  /\ probe.partySize = 7
  /\ Returned(<<"T1", "T2">>)
  /\ Returned(<<"T2", "T3">>)
  /\ Returned(<<"T1", "T2", "T3">>)
  /\ ~Returned(<<"T1", "T3">>)
  /\ \E i \in 1..Len(probe.domain) :
       /\ probe.domain[i].tableIds = <<"T1", "T2">>
       /\ probe.domain[i].waste > (4 + 4) - probe.partySize

\* The awaits of execute in program order.
PcOrder ==
  <<"idle", "awaitIdemGet", "awaitRestaurant", "awaitSector", "awaitTables",
    "awaitBookings", "awaitAcquire", "awaitRecheck", "awaitSave", "awaitIdemSet",
    "awaitRelease", "done">>

PcRank(pc) == CHOOSE i \in 1..Len(PcOrder) : PcOrder[i] = pc

OpsTotal(r) ==
  obs[r].ops.catalogRead + obs[r].ops.ledgerRead + obs[r].ops.ledgerAppend
  + obs[r].ops.lockAcquire + obs[r].ops.lockRelease + obs[r].ops.idemGet
  + obs[r].ops.idemSet

ErrorCodes == {"invalid_input", "not_found", "no_capacity", "conflict", "unexpected"}

OneOutcome(r) ==
  \/ /\ req[r].outcome.ok
     /\ req[r].outcome.response # Nil
     /\ req[r].outcome.error = "none"
  \/ /\ ~req[r].outcome.ok
     /\ req[r].outcome.response = Nil
     /\ req[r].outcome.error \in ErrorCodes

\* The call is about to leave with Conflict: the acquire failed, or the
\* re-validation found a collision and finally has released the lock.
ConflictSeen(r) ==
  \/ req[r].pc = "awaitAcquire" /\ ~req[r].lockAcquired
  \/ req[r].pc = "awaitRelease" /\ req[r].pending = Err("conflict")

BoundedCalls ==
  \A r \in Reqs :
    /\ obs[r].ops.lockAcquire <= 1
    /\ obs[r].ops.ledgerAppend <= 1
    /\ obs[r].ops.idemSet <= 1
    /\ obs[r].ops.ledgerRead <= 2
    /\ OpsTotal(r) <= 10
    /\ Running(r) => ENABLED Step(r)
    /\ Done(r) => OneOutcome(r)

ForwardOnly ==
  \A r \in Reqs :
    /\ req'[r] # req[r] => PcRank(req'[r].pc) > PcRank(req[r].pc)
    /\ obs[r].selected # Nil => obs'[r].selected = obs[r].selected
    /\ (ConflictSeen(r) /\ req'[r] # req[r]) =>
         /\ req'[r].pc = "done"
         /\ req'[r].outcome = Err("conflict")
         /\ obs'[r] = obs[r]

\* C29 (no internal retries): a call of execute makes at most one lock
\* acquire, one ledger append and one idempotency write (at most two ledger
\* reads and ten port calls in all), every step it takes moves it forward in
\* program order and a running call can always take its next step, so it
\* ends within eleven steps, with a booking or with exactly one error; after
\* a failed acquire or a detected collision its next step ends it with
\* Conflict, with no further port call and its one selected candidate.
C29_NoInternalRetries == [](BoundedCalls) /\ [][ForwardOnly]_vars

\* C29's case: a call has ended in Conflict at its one failed acquire, after
\* one ledger read, and the other call has ended after its one acquire.
C29_Witness ==
  \E r, q \in Reqs :
    /\ r # q
    /\ Done(r) /\ req[r].outcome = Err("conflict")
    /\ obs[r].ops.lockAcquire = 1 /\ ~obs[r].acquired /\ obs[r].ops.ledgerRead = 1
    /\ Done(q) /\ req[q].outcome.error \in {"conflict", "none"}
    /\ obs[q].ops.lockAcquire = 1

Aligned == probe # Nil /\ probe.service = "time" /\ probe.call = "align"

GreatestGridAtMost(g, t) == OnGrid(g) /\ g <= t /\ t - g < GridMinutes * MsPerMinute

LeastGridAtLeast(g, t) == OnGrid(g) /\ g >= t /\ g - t < GridMinutes * MsPerMinute

\* C30 (TimeGrid rounding): alignToGrid(t) is the greatest 15-minute grid
\* instant <= t, alignToNextGrid(t) is the least 15-minute grid instant >= t,
\* for every t, and both are idempotent.
C30_GridRounding ==
  Aligned =>
    /\ GreatestGridAtMost(probe.result.down, probe.t)
    /\ LeastGridAtLeast(probe.result.up, probe.t)
    /\ probe.result.downTwice = probe.result.down
    /\ probe.result.upTwice = probe.result.up

\* alignToGrid is the greatest grid instant <= t, both functions land on the
\* grid and are idempotent, and alignToNextGrid is the least grid instant
\* >= t when the minutes of t are not a multiple of 15 or t is on the grid.
C30_GridRoundingWholeSlots ==
  Aligned =>
    /\ GreatestGridAtMost(probe.result.down, probe.t)
    /\ OnGrid(probe.result.up)
    /\ probe.result.downTwice = probe.result.down
    /\ probe.result.upTwice = probe.result.up
    /\ (OnGrid(probe.t) \/ (probe.t \div MsPerMinute) % GridMinutes # 0) =>
         LeastGridAtLeast(probe.result.up, probe.t)

\* 20:15:30 has been aligned up to 20:15:00, an instant before it.
C30_AlignUpGoesBack ==
  /\ Aligned
  /\ probe.t = H(20, 15) + 30 * 1000
  /\ probe.result.up = H(20, 15)
  /\ probe.result.up < probe.t

\* The call that appended the i-th booking of the ledger.
AppendedBy(i, r) ==
  /\ obs[r].ops.ledgerAppend = 1
  /\ req[r].input.idempotencyKey = createdBy[i]
  /\ bookingStore[i].partySize = req[r].input.partySize
  /\ bookingStore[i].durationMinutes = req[r].input.durationMinutes
  /\ bookingStore[i].tableIds = obs[r].selected.tableIds
  /\ bookingStore[i].start = obs[r].selected.gap.start

IntervalIsDuration(b) == b.end - b.start = b.durationMinutes * MsPerMinute

\* C31 (booking interval matches its duration): every booking a call appends
\* is CONFIRMED, has the request's party size and duration and the selected
\* candidate's table ids, and its interval [start, end) is durationMinutes
\* long.
C31_IntervalMatchesDuration ==
  \A i \in Created :
    /\ bookingStore[i].status = "CONFIRMED"
    /\ \E r \in Reqs : AppendedBy(i, r)
    /\ IntervalIsDuration(bookingStore[i])

\* Every appended booking is CONFIRMED with the request's party size and
\* duration and the selected candidate's table ids, and its interval is the
\* selected candidate's whole gap, at least durationMinutes long.
C31_IntervalIsWholeGap ==
  \A i \in Created :
    /\ bookingStore[i].status = "CONFIRMED"
    /\ \E r \in Reqs :
         /\ AppendedBy(i, r)
         /\ bookingStore[i].end = obs[r].selected.gap.end
    /\ bookingStore[i].end - bookingStore[i].start
         >= bookingStore[i].durationMinutes * MsPerMinute

\* A booking of 90 minutes has been appended whose interval is longer.
C31_LongerThanDuration ==
  \E i \in Created :
    /\ bookingStore[i].durationMinutes = 90
    /\ bookingStore[i].end - bookingStore[i].start > 90 * MsPerMinute

Combined == probe # Nil /\ probe.service = "combination" /\ probe.call = "execute"

CombinationTables == {t \in Range(probe.tables) : t.id \in Range(probe.result.tableIds)}

\* C32 (TableCombinationService capacity range): a non-empty combination
\* returned for people has sum of minSize <= people <= sum of maxSize and
\* waste = sum of maxSize - people >= 0; when none is found the result is
\* tableIds = [] and waste = Infinity.
C32_CombinationRange ==
  Combined =>
    IF probe.result.tableIds = <<>> THEN probe.result.waste = "Infinity"
    ELSE /\ SumOver(CombinationTables, LAMBDA t : t.minSize) <= probe.people
         /\ probe.people <= SumOver(CombinationTables, LAMBDA t : t.maxSize)
         /\ probe.result.waste
              = SumOver(CombinationTables, LAMBDA t : t.maxSize) - probe.people
         /\ probe.result.waste >= 0

\* The same without the lower end of the range: people <= sum of maxSize and
\* waste = sum of maxSize - people >= 0, or tableIds = [] and waste Infinity.
C32_CombinationUpperRange ==
  Combined =>
    IF probe.result.tableIds = <<>> THEN probe.result.waste = "Infinity"
    ELSE /\ probe.people <= SumOver(CombinationTables, LAMBDA t : t.maxSize)
         /\ probe.result.waste
              = SumOver(CombinationTables, LAMBDA t : t.maxSize) - probe.people
         /\ probe.result.waste >= 0

\* T1(2,2) + T2(4,4), capacity range 6..6, has been returned for 3 people.
C32_BelowMinimum ==
  /\ Combined
  /\ probe.people = 3
  /\ probe.result.tableIds = <<"T1", "T2">>
  /\ SumOver(CombinationTables, LAMBDA t : t.minSize) = 6

\* The call is inside the commit window: its acquire has succeeded and it
\* has not yet called release.
InCommitWindow(r) ==
  \/ req[r].pc = "awaitAcquire" /\ req[r].lockAcquired
  \/ req[r].pc \in {"awaitRecheck", "awaitSave", "awaitIdemSet"}

\* The step is r's call of release.
Releases(r) == obs'[r].ops.lockRelease = obs[r].ops.lockRelease + 1

OneInWindow ==
  \A r, q \in Reqs :
    (r # q /\ InCommitWindow(r) /\ InCommitWindow(q)) => req[r].lockKey # req[q].lockKey

ReleasesOwnLock ==
  \A r \in Reqs :
    (Releases(r) /\ req[r].lockKey \in DOMAIN locks) =>
      locks[req[r].lockKey].owner = r

\* C33 (commit-window mutual exclusion): no two calls are inside the commit
\* window for the same lock key at the same time, however long a holder
\* stays in it, and a call's release never removes a lock entry on its key
\* that another call has acquired.
C33_CommitWindowExclusion == [](OneInWindow) /\ [][ReleasesOwnLock]_vars

\* Two calls are inside the commit window for one key, the entry of the
\* first having expired.
C33_TwoInWindow ==
  \E r, q \in Reqs :
    /\ r # q
    /\ InCommitWindow(r) /\ InCommitWindow(q)
    /\ req[r].lockKey = req[q].lockKey
    /\ locks[req[q].lockKey].owner = q

\* The booking is in the ledger, field for field, appended under the key.
InLedgerUnder(booking, key) ==
  \E i \in 1..Len(bookingStore) : bookingStore[i] = booking /\ createdBy[i] = key

CachePointsIntoLedger ==
  /\ \A k \in DOMAIN idemStore : InLedgerUnder(idemStore[k].booking, k)
  /\ \A r \in Reqs :
       /\ obs[r].ops.idemSet <= obs[r].ops.ledgerAppend
       /\ (Done(r) /\ req[r].outcome.error
                        \in {"invalid_input", "not_found", "no_capacity", "conflict"})
            => obs[r].ops.idemSet = 0
       /\ (Done(r) /\ ~req[r].outcome.ok /\ obs[r].ops.ledgerAppend = 0)
            => obs[r].ops.idemSet = 0

\* A mapping appears or changes only by the set of a call that has appended
\* that booking.
MappedAfterAppend ==
  \A k \in DOMAIN idemStore' :
    (k \notin DOMAIN idemStore \/ idemStore'[k] # idemStore[k]) =>
      \/ k \in DOMAIN idemStore /\ idemStore'[k].booking = idemStore[k].booking
      \/ \E r \in Reqs :
           /\ req[r].pc = "awaitSave"
           /\ req[r].input.idempotencyKey = k
           /\ obs[r].ops.ledgerAppend = 1
           /\ obs'[r].ops.idemSet = 1
           /\ idemStore'[k].booking = req[r].savedBooking
           /\ InLedgerUnder(req[r].savedBooking, k)

\* C34 (idempotency cache points into the ledger): every booking stored in
\* the idempotency cache is in the ledger with identical fields; a mapping
\* is written only by a call that has appended that booking; a call that
\* fails with InvalidInput, NotFound, NoCapacity or Conflict, or without an
\* append, writes no mapping.
C34_CachePointsIntoLedger == [](CachePointsIntoLedger) /\ [][MappedAfterAppend]_vars

\* C34's case: one call has appended a booking and mapped its key to it,
\* the other has failed with Conflict and written nothing.
C34_Witness ==
  \E r, q \in Reqs :
    /\ Done(r) /\ req[r].outcome.ok /\ obs[r].ops.idemSet = 1
    /\ req[r].input.idempotencyKey \in DOMAIN idemStore
    /\ idemStore[req[r].input.idempotencyKey].booking.id = req[r].outcome.response.id
    /\ Done(q) /\ req[q].outcome = Err("conflict") /\ obs[q].ops.idemSet = 0
    /\ req[q].input.idempotencyKey \notin DOMAIN idemStore

\* C35 (discovery and re-validation agree): a call that runs alone against
\* an unchanging ledger and for which discovery yields a candidate succeeds
\* and appends exactly one booking; it never ends with Conflict.
C35_AloneNeverConflicts ==
  \A r \in Reqs :
    Done(r) =>
      /\ req[r].outcome.error # "conflict"
      /\ obs[r].selected # Nil => req[r].outcome.ok /\ obs[r].ops.ledgerAppend = 1

\* A call has ended with Conflict and its retry, alone against the same
\* ledger, has ended with Conflict again.
C35_PermanentConflict ==
  \A r \in Reqs : Done(r) /\ req[r].outcome = Err("conflict") /\ Created = {}

Reordered == probe # Nil /\ probe.service = "comboOrder" /\ probe.call = "findComboGaps"

IntervalsOf(gaps) == {<<gaps[i].start, gaps[i].end>> : i \in 1..Len(gaps)}

\* C37 (combo intersection is order-independent): findComboGaps returns the
\* same set of intervals for the tables in any order.
C37_OrderIndependent ==
  Reordered => IntervalsOf(probe.result) = IntervalsOf(probe.reorderedResult)

\* C37's case: three tables taken in an order that starts with another
\* table, the first tables of the two orders having different gaps (one of
\* them two gaps that touch), and a combo gap that is no table's own gap.
C37_Witness ==
  /\ Reordered
  /\ Len(probe.tables) = 3
  /\ probe.reordered[1] # probe.tables[1]
  /\ probe.result # <<>>
  /\ \E a \in {findGapsForTable(probe.tables[1], probe.bookings, probe.date,
                                  probe.durationMinutes, probe.serviceWindows)} :
     \E b \in {findGapsForTable(probe.reordered[1], probe.bookings, probe.date,
                                  probe.durationMinutes, probe.serviceWindows)} :
       /\ IntervalsOf(a) # IntervalsOf(b)
       /\ \E i, j \in 1..Len(a) : a[i].end = a[j].start
       /\ IntervalsOf(probe.result) # IntervalsOf(a)
       /\ IntervalsOf(probe.result) # IntervalsOf(b)

Got == probe # Nil /\ probe.service = "store" /\ probe.got # Nil

\* C38 (an idempotency entry lives for its full TTL): a get made less than
\* the TTL after the latest set of its key returns the booking of that set.
C38_LivesFullTTL ==
  (Got /\ probe.got.elapsed # NoTime /\ probe.got.elapsed < IdemTTL) =>
    probe.got.booking = probe.got.latest

\* A get never returns anything but the booking of the latest set of its
\* key, and returns nothing once more than the TTL has passed since that set.
C38_LatestOrNothing ==
  Got =>
    /\ probe.got.booking # Nil => probe.got.booking = probe.got.latest
    /\ (probe.got.elapsed # NoTime /\ probe.got.elapsed > IdemTTL) =>
         probe.got.booking = Nil

\* A get has returned nothing 40 s after the latest set of its key.
C38_LostEarly ==
  /\ Got
  /\ probe.got.elapsed = 40000
  /\ probe.got.booking = Nil
  /\ probe.got.latest # Nil

====
